---- MODULE Spec2Model ----
(***************************************************************************)
(* Transport core of the HOPR node: the Network registry                   *)
(* (transport/network/src/network.rs) and the transport facade with its    *)
(* session router (transport/api/src/lib.rs), the tick loop                 *)
(* (transport/api/src/timer.rs) and the emitter of network events          *)
(* (transport/api/src/adaptors/network.rs).                                *)
(*                                                                         *)
(* Units.  An f64 quality is the integer c * QScale + e: c is the nearest  *)
(* multiple of 0.1 in hundredths and e the distance of the f64 from the    *)
(* f64 nearest to c/100, in units of 2^-56 (1.0 = 100000,                  *)
(* 0.30000000000000004 = 30004); the order of the integers is the order of *)
(* the f64s.  f64 backoffs are kept in tenths (2.0 = 20, 1.5 = 15,         *)
(* 300.0 = 3000).  Time is a tick counter; the epoch (UNIX_EPOCH, "never   *)
(* seen") is 0 and the clock starts at 1.                                  *)
(***************************************************************************)
EXTENDS Integers, Sequences, FiniteSets, TLC

VARIABLES
    peers,      \* the peer store behind Network.db: PeerId -> PeerStatus | NoPeer
    now,        \* current_time()
    netRes,     \* the last Network call: its arguments and what it returned
    okRun,      \* per peer: the successful probes of its record in a row, up to RecoveryProbes
    observed,   \* a peer record has been stored at some time
    ran,        \* run() has set the write-once handles and spawned the processes
    cells,      \* the OnceLock cells ping, process_packet_send, process_ticket_aggregate:
                \* the run() call that set each (0: empty)
    runs,       \* each run() call: its position
    sessions,   \* HoprTransport.sessions: SessionId -> sender of an inbound channel (0: no entry)
    chans,      \* the inbound channels created so far: queued data, receiver alive
    incoming,   \* the Sessions sent on incoming_session_queue
    incomingOpen, \* the receiver of incoming_session_queue is alive
    hostOut,    \* the ApplicationData forwarded to on_transport_output
    handed,     \* the Sessions returned by new_session
    rtr,        \* the SessionsManagement process: its position and the packet in hand
    ns,         \* each new_session caller: its position and the chosen SessionId
    idle,       \* per SessionId: minutes since the last get or insert of its directory entry
    resolved,   \* calls of path_planner.resolve_path so far
    sent,       \* packets handed to the packet sender so far
    pg,         \* the ping() call in progress: its position, peer and start time
    submitted,  \* probes handed to the ping executor so far
    late,       \* peers whose probe is still with the executor after its ping() timed out
    tmr,        \* the execute_on_tick loop: its position, clock and action invocations
    evq,        \* the network_events channel: undelivered events, receiver alive, last emit
    calls,      \* update and add calls between their read and their write of the peer store
    facRes      \* the last facade call: its arguments and what it returned

netVars == <<peers, now, netRes, okRun, observed>>
sessVars == <<sessions, chans, incoming, incomingOpen, hostOut, handed, rtr, ns, idle>>
sendVars == <<resolved, sent>>
runVars == <<ran, cells, runs>>
pingVars == <<pg, submitted, late>>
facVars == <<ran, cells, runs, sessions, chans, incoming, incomingOpen, hostOut, handed, rtr, ns, idle,
             resolved, sent, pg, submitted, late, tmr, facRes>>
vars == <<peers, now, netRes, okRun, observed, ran, cells, runs, sessions, chans, incoming, incomingOpen, hostOut,
          handed, rtr, ns, idle, resolved, sent, pg, submitted, late, tmr, evq, calls, facRes>>

----------------------------------------------------------------------------
(* Bounds of the model *)
MaxTime == 3            \* the clock stops here
MaxHeartbeats == 4      \* update() is not called on a peer probed this often
MaxProbes == 11         \* the same, in the long runs of SpecProbes
MaxProbeTime == 2       \* the clock stops here in SpecProbes
MaxBackoff == 3000      \* a failed probe is not modelled above this backoff (tenths)
MaxChans == 2           \* inbound channels created in one run
MaxQueue == 2           \* data items delivered to one inbound channel
MaxHostOut == 2         \* packets forwarded to the host in one run
MaxSends == 2           \* send_message calls that get as far as the path planner
MaxRuns == 2            \* calls of run() on one facade
MaxPings == 2           \* probes handed to the ping executor by ping()
MaxTicks == 3           \* iterations of the execute_on_tick loop
MaxEmits == 4           \* events handed to emit
MaxCalls == 3           \* overlapping update and add calls begun
MaxPairProbes == 3      \* update() calls on one peer in SpecPeers
MaxPairTime == 2        \* the clock stops here in SpecPeers
MaxStoredProbes == 11   \* update() calls on the peer in SpecStored

(* Identities *)
Me == "me"
OtherPeers == {"p1", "p2"}
ProbedPeers == {Me, "p1"}   \* the peers the calls of Spec and SpecProbes name
PeerIds == {Me} \cup OtherPeers
NoPeer == [none |-> TRUE]
None == "None"          \* Option::None of a string
Never == -1             \* Option::<SystemTime>::None
NoEvent == [type |-> "None"]

(* NetworkConfig as the tests of network.rs use it *)
QScale == 1000
QualityOne == 100 * QScale
QualityStep == 10 * QScale
QualityBadThreshold == 20 * QScale
BackoffExponent == 15
BackoffMin == 20
BackoffMax == 3000
IgnoreTimeframe == 2
MinDelay == 2           \* two ticks of the clock: an instant can lie between
MaxDelay == 6           \* two multiples of min_delay

(* ceil(1 / quality_step) *)
RecoveryProbes == (QualityOne + QualityStep - 1) \div QualityStep

Origins == {"IncomingConnection", "ManualPing"}
Addrs == {"a1"}
Latencies == {123}
Versions == {None, "1.2.4", "2.0.0"}

Min(a, b) == IF a < b THEN a ELSE b
Max(a, b) == IF a > b THEN a ELSE b

----------------------------------------------------------------------------
(* f64::powf(backoff, cfg.backoff_exponent) for the exponent 1.5, on tenths:
   (v/10)^1.5 * 10 = v * sqrt(v/10), truncated. *)
RECURSIVE SqrtSearch(_, _, _)
SqrtSearch(n, lo, hi) ==
    IF lo >= hi THEN lo
    ELSE LET mid == (lo + hi + 1) \div 2
         IN IF mid * mid <= n THEN SqrtSearch(n, mid, hi)
                              ELSE SqrtSearch(n, lo, mid - 1)

ISqrt(n) == SqrtSearch(n, 0, 46340)

Powf(b) == (b * ISqrt(b * 1000)) \div 100

----------------------------------------------------------------------------
(* f64 addition and subtraction of quality_step = 0.1 (lines 240 and 243),
   IEEE 754 binary64 with round-to-nearest, ties-to-even. *)

(* the multiple of 0.1 (in hundredths) a quality is nearest to, and its
   distance in units of 2^-56 from the f64 nearest to that multiple *)
Nominal(q) == ((q + 5 * QScale) \div (10 * QScale)) * 10
Offset(q) == q - Nominal(q) * QScale

(* (f64(c/100) + f64(0.1) - f64((c+10)/100)) / 2^-56 for c = 0, 10 .. 90 *)
StepDelta == <<0, 0, 2, -2, 2, 2, 2, -6, 2, 2>>

(* the parity of the 53-bit significand of f64(c/100) for c = 10, 20 .. 100 *)
SignificandOdd == <<0, 0, 1, 0, 0, 1, 0, 0, 1, 0>>

(* the spacing of the f64s around f64(c/100) + t * 2^-56, in units of 2^-56 *)
Spacing(c, t) ==
    IF c >= 100 THEN (IF t >= 0 THEN 16 ELSE 8)
    ELSE IF c > 50 THEN 8
    ELSE IF c = 50 THEN (IF t >= 0 THEN 8 ELSE 4)
    ELSE IF c >= 30 THEN 4
    ELSE IF c = 20 THEN 2
    ELSE 1

(* the exact value f64(c/100) + t * 2^-56 rounded to an f64, as a quality *)
RoundF64(c, t) ==
    IF c <= 0 THEN c * QScale + t
    ELSE LET g == Spacing(c, t)
             lo == (t \div g) * g
             r == t - lo
             loOdd == (SignificandOdd[c \div 10] + (lo \div g)) % 2
             up == \/ 2 * r > g
                   \/ (2 * r = g /\ loOdd = 1)
         IN c * QScale + (IF up THEN lo + g ELSE lo)

(* q + cfg.quality_step *)
F64AddStep(q) ==
    LET c == Nominal(q) IN
    IF c >= 100 THEN q + 10 * QScale
    ELSE RoundF64(c + 10, Offset(q) + StepDelta[c \div 10 + 1])

(* q - cfg.quality_step *)
F64SubStep(q) ==
    LET c == Nominal(q) IN
    IF c <= 0 THEN q - 10 * QScale
    ELSE RoundF64(c - 10, Offset(q) - StepDelta[c \div 10])

----------------------------------------------------------------------------
(* PeerStatus::new(id, origin, backoff, quality_window) *)
NewPeerStatus(origin, backoff) ==
    [ origin |-> origin, multiaddresses |-> {}, quality |-> 0,
      heartbeats_sent |-> 0, heartbeats_succeeded |-> 0,
      last_seen |-> 0, last_seen_latency |-> 0,
      backoff |-> backoff, ignored |-> Never, peer_version |-> None ]

(* HoprDbPeersOperations::add_network_peer(peer, origin, mas, backoff, quality_window) *)
DbAddNetworkPeer(store, p, origin, addrs, backoff) ==
    [store EXCEPT ![p] = [NewPeerStatus(origin, backoff) EXCEPT !.multiaddresses = addrs]]

(* HoprDbPeersOperations::update_network_peer / remove_network_peer / get_network_peer *)
DbUpdateNetworkPeer(store, p, entry) == [store EXCEPT ![p] = entry]
DbRemoveNetworkPeer(store, p) == [store EXCEPT ![p] = NoPeer]
DbGetNetworkPeer(store, p) == store[p]

(* PeerStatus::update_quality / get_quality *)
UpdateQuality(entry, q) == [entry EXCEPT !.quality = q]
GetQuality(entry) == entry.quality

ShouldStillBeIgnored_Forever(entry, t) == entry.ignored # Never

ShouldStillBeIgnored_Never(entry, t) == FALSE

(* Network::should_still_be_ignored *)
ShouldStillBeIgnored(entry, t) ==
    IF entry.ignored = Never THEN FALSE
    ELSE Max(t - entry.ignored, 0) < IgnoreTimeframe

IsOwnPeerId_Skipped(p) == FALSE

(* the `peer == &self.me` test that opens add, remove and update *)
IsOwnPeerId(p) == p = Me

DisallowedOnOwn == "DisallowedOperationOnOwnPeerIdError"

(* Network::add: the new store and the returned Result *)
NetworkAdd(store, t, p, origin, addrs) ==
    IF IsOwnPeerId(p) THEN [store |-> store, result |-> DisallowedOnOwn]
    ELSE LET entry == DbGetNetworkPeer(store, p) IN
         IF entry # NoPeer
         THEN IF ~ShouldStillBeIgnored(entry, t)
              THEN [store |-> DbUpdateNetworkPeer(store, p,
                                 [entry EXCEPT !.ignored = Never,
                                               !.multiaddresses = @ \cup addrs]),
                    result |-> "Ok"]
              ELSE [store |-> store, result |-> "Ok"]
         ELSE [store |-> DbAddNetworkPeer(store, p, origin, addrs, BackoffExponent),
               result |-> "Ok"]

(* Network::remove *)
NetworkRemove(store, p) ==
    IF IsOwnPeerId(p) THEN [store |-> store, result |-> DisallowedOnOwn]
    ELSE [store |-> DbRemoveNetworkPeer(store, p), result |-> "Ok"]

OnPingOk_Unclamped(entry, t, latency) ==
    UpdateQuality([entry EXCEPT !.last_seen = t,
                                !.last_seen_latency = latency,
                                !.heartbeats_succeeded = @ + 1,
                                !.backoff = BackoffMin],
                  F64AddStep(GetQuality(entry)))

OnPingOk_BackoffKept(entry, t, latency) ==
    UpdateQuality([entry EXCEPT !.last_seen = t,
                                !.last_seen_latency = latency,
                                !.heartbeats_succeeded = @ + 1],
                  Min(QualityOne, F64AddStep(GetQuality(entry))))

(* the Ok branch of Network::update, lines 236-240 *)
OnPingOk(entry, t, latency) ==
    UpdateQuality([entry EXCEPT !.last_seen = t,
                                !.last_seen_latency = latency,
                                !.heartbeats_succeeded = @ + 1,
                                !.backoff = BackoffMin],
                  Min(QualityOne, F64AddStep(GetQuality(entry))))

(* the new backoff of the Err branch, line 242 *)
FailureBackoff(b) == Max(BackoffMax, Powf(b))

(* the Err branch of Network::update up to the threshold tests, lines 242-243 *)
OnPingErr(entry) ==
    UpdateQuality([entry EXCEPT !.backoff = FailureBackoff(entry.backoff)],
                  Max(0, F64SubStep(GetQuality(entry))))

OnUnknownPeer_Inserted(store, p) ==
    [store |-> DbAddNetworkPeer(store, p, "IncomingConnection", {}, BackoffExponent),
     result |-> "Ok", event |-> NoEvent]

(* Network::update for a peer without a record, lines 264-267 *)
OnUnknownPeer(store, p) == [store |-> store, result |-> "Ok", event |-> NoEvent]

ClosesConnection_AtBadThreshold(entry) == GetQuality(entry) < QualityBadThreshold

(* the test of line 245: quality below quality_step / 2 *)
ClosesConnection(entry) == GetQuality(entry) * 2 < QualityStep

NetworkUpdate_StoresOnClose(store, t, p, ping, latency, version) ==
    IF IsOwnPeerId(p) THEN [store |-> store, result |-> DisallowedOnOwn, event |-> NoEvent]
    ELSE LET found == DbGetNetworkPeer(store, p) IN
         IF found = NoPeer THEN OnUnknownPeer(store, p)
         ELSE LET e0 == IF ~ShouldStillBeIgnored(found, t)
                        THEN [found EXCEPT !.ignored = Never] ELSE found
                  e1 == [e0 EXCEPT !.heartbeats_sent = @ + 1, !.peer_version = version]
              IN IF ping = "Ok"
                 THEN LET e2 == OnPingOk(e1, t, latency)
                      IN [store |-> DbUpdateNetworkPeer(store, p, e2), result |-> "Ok",
                          event |-> [type |-> "UpdateQuality", peer |-> p,
                                     quality |-> GetQuality(e2)]]
                 ELSE LET e2 == OnPingErr(e1) IN
                      IF ClosesConnection(e2)
                      THEN [store |-> DbUpdateNetworkPeer(store, p, e2), result |-> "Ok",
                            event |-> [type |-> "CloseConnection", peer |-> p]]
                      ELSE LET e3 == IF GetQuality(e2) < QualityBadThreshold
                                     THEN [e2 EXCEPT !.ignored = t] ELSE e2
                           IN [store |-> DbUpdateNetworkPeer(store, p, e3), result |-> "Ok",
                               event |-> [type |-> "UpdateQuality", peer |-> p,
                                          quality |-> GetQuality(e3)]]

(* Network::update: the new store, the Result and the event inside Ok(Some(..)) *)
NetworkUpdate(store, t, p, ping, latency, version) ==
    IF IsOwnPeerId(p) THEN [store |-> store, result |-> DisallowedOnOwn, event |-> NoEvent]
    ELSE LET found == DbGetNetworkPeer(store, p) IN
         IF found = NoPeer THEN OnUnknownPeer(store, p)
         ELSE LET e0 == IF ~ShouldStillBeIgnored(found, t)
                        THEN [found EXCEPT !.ignored = Never] ELSE found
                  e1 == [e0 EXCEPT !.heartbeats_sent = @ + 1, !.peer_version = version]
              IN IF ping = "Ok"
                 THEN LET e2 == OnPingOk(e1, t, latency)
                      IN [store |-> DbUpdateNetworkPeer(store, p, e2), result |-> "Ok",
                          event |-> [type |-> "UpdateQuality", peer |-> p,
                                     quality |-> GetQuality(e2)]]
                 ELSE LET e2 == OnPingErr(e1) IN
                      IF ClosesConnection(e2)
                      THEN [store |-> store, result |-> "Ok",
                            event |-> [type |-> "CloseConnection", peer |-> p]]
                      ELSE LET e3 == IF GetQuality(e2) < QualityBadThreshold
                                     THEN [e2 EXCEPT !.ignored = t] ELSE e2
                           IN [store |-> DbUpdateNetworkPeer(store, p, e3), result |-> "Ok",
                               event |-> [type |-> "UpdateQuality", peer |-> p,
                                          quality |-> GetQuality(e3)]]

(* Network::has *)
NetworkHas(store, t, p) ==
    \/ p = Me
    \/ LET found == DbGetNetworkPeer(store, p)
       IN IF found = NoPeer THEN FALSE ELSE ~ShouldStillBeIgnored(found, t)

MeAddresses == {}

(* Network::get: the record inside Ok(..), NoPeer for Ok(None) *)
NetworkGet(store, t, p) ==
    IF p = Me
    THEN [NewPeerStatus("Initialization", 0) EXCEPT !.multiaddresses = MeAddresses]
    ELSE LET found == DbGetNetworkPeer(store, p)
         IN IF found # NoPeer /\ ~ShouldStillBeIgnored(found, t) THEN found ELSE NoPeer

(* HoprDbPeersOperations::get_network_peers(selector, sort_last_seen_asc): the
   ids of the records the selector admits (lastSeenLte = Never: no selector) *)
DbGetNetworkPeers(store, lastSeenLte) ==
    {p \in DOMAIN store : /\ store[p] # NoPeer
                          /\ (lastSeenLte = Never \/ store[p].last_seen <= lastSeenLte)}

(* Network::peer_filter: the records handed to the filter *)
PeerFilter(store) == DbGetNetworkPeers(store, Never)

(* HoprTransport::network_connected_peers *)
NetworkConnectedPeers(store) == PeerFilter(store)

(* the delay of a record in Network::find_peers_to_ping, lines 319-320 *)
PingDelay_Uncapped(entry) == MinDelay * (Powf(entry.backoff) \div 10)

PingDelay(entry) == Min(MinDelay * (Powf(entry.backoff) \div 10), MaxDelay)

(* Network::find_peers_to_ping: the peers returned *)
FindPeersToPing(store, threshold) ==
    {p \in DbGetNetworkPeers(store, threshold) :
        /\ ~IsOwnPeerId(p)
        /\ store[p].last_seen + PingDelay(store[p]) < threshold}

(* the orders of the set S as sequences *)
Orders(S) ==
    {s \in [1 .. Cardinality(S) -> S] : \A i, j \in DOMAIN s : i # j => s[i] # s[j]}

(* data.sort_by of find_peers_to_ping, lines 330-336: a stable sort whose
   comparator answers Less for an earlier last_seen and Greater otherwise;
   records of equal last_seen keep the order the store streamed them in, which
   is any order *)
SortByLastSeen(store, S) ==
    {s \in Orders(S) :
        \A i, j \in DOMAIN s :
            i < j => ~(store[s[j]].last_seen < store[s[i]].last_seen)}

(* Network::find_peers_to_ping: the vectors it can return *)
FindPeersToPingResults(store, threshold) ==
    SortByLastSeen(store, FindPeersToPing(store, threshold))

(* HoprDbPeersOperations::network_peer_stats(quality_threshold): the stored
   records counted by public / non-public and by good (quality at or above the
   threshold) / bad; the records carry no public flag and, as the tests of
   network.rs say, all count as public *)
DbError == [error |-> "db"]

DbNetworkPeerStats(store, threshold) ==
    LET stored == {p \in DOMAIN store : store[p] # NoPeer} IN
    [ good_quality_public |->
          Cardinality({p \in stored : GetQuality(store[p]) >= threshold}),
      bad_quality_public |->
          Cardinality({p \in stored : GetQuality(store[p]) < threshold}),
      good_quality_non_public |-> 0,
      bad_quality_non_public |-> 0 ]

(* health_from_stats *)
HealthFromStats_OrangeWins(stats, is_public) ==
    IF stats.bad_quality_public > 0 THEN "Orange"
    ELSE IF stats.good_quality_public > 0
         THEN IF is_public \/ stats.good_quality_non_public > 0 THEN "Green" ELSE "Yellow"
         ELSE "Red"

HealthFromStats_UnknownByDefault(stats, is_public) ==
    IF stats.good_quality_public > 0
    THEN IF is_public \/ stats.good_quality_non_public > 0 THEN "Green" ELSE "Yellow"
    ELSE IF stats.bad_quality_public > 0 THEN "Orange" ELSE "Unknown"

HealthFromStats(stats, is_public) ==
    LET health0 == "Red"
        health1 == IF stats.bad_quality_public > 0 THEN "Orange" ELSE health0
    IN IF stats.good_quality_public > 0
       THEN IF is_public \/ stats.good_quality_non_public > 0 THEN "Green" ELSE "Yellow"
       ELSE health1

AmIPublic_False == FALSE

(* Network.am_i_public, set by Network::new *)
AmIPublic == TRUE

(* Network::health *)
NetworkHealth_UnknownWhenEmpty(store) ==
    LET stats == DbNetworkPeerStats(store, QualityBadThreshold) IN
    IF stats = DbError \/ \A p \in DOMAIN store : store[p] = NoPeer THEN "Unknown"
    ELSE HealthFromStats(stats, AmIPublic)

NetworkHealth(store) ==
    LET stats == DbNetworkPeerStats(store, QualityBadThreshold) IN
    IF stats = DbError THEN "Unknown" ELSE HealthFromStats(stats, AmIPublic)

Thresholds == 0 .. (MaxTime + MaxDelay + 1)

----------------------------------------------------------------------------
(* The transport facade: constants.rs and lib.rs *)

RESERVED_SUBPROTOCOL_TAG_UPPER_LIMIT == 16
RESERVED_SESSION_TAG_UPPER_LIMIT == 1024
PAYLOAD_SIZE == 500
SessionIdAttempts == 100

NoTag == -1                 \* Option::<u16>::None
(* the u16 tags the model draws from: both ends of each range *)
TagUniverse == {0, 15, 16, 1023, 1024, 65535}
TagOptions == {NoTag} \cup TagUniverse

SessPeers == {"Q", "R"}
(* offchain public keys and PeerId::from(OffchainPublicKey) *)
KeyPeer == [kQ |-> "Q", kR |-> "R"]
(* plaintexts: <<>> is too short to hold a key, the others are key ++ data *)
Plaintexts == {<<>>, <<"kQ", 170>>, <<"kQ", 187>>, <<"kR", 170>>}
Packets == [application_tag : TagOptions, plain_text : Plaintexts]

Callers == {"c1"}
(* cfg.peer of the new_session calls *)
ClientPeers == {"Q"}

(* hopr_transport_session::types::unwrap_offchain_key *)
UnwrapOffchainKey(plain) ==
    IF Len(plain) < 1 \/ Head(plain) \notin DOMAIN KeyPeer
    THEN [ok |-> FALSE]
    ELSE [ok |-> TRUE, peer |-> KeyPeer[Head(plain)], data |-> Tail(plain)]

(* SessionId::new *)
NewSessionId(tag, peer) == <<tag, peer>>
SessionTags == {t \in TagUniverse : /\ RESERVED_SUBPROTOCOL_TAG_UPPER_LIMIT <= t
                                    /\ t < RESERVED_SESSION_TAG_UPPER_LIMIT}
SessionIds == TagUniverse \X SessPeers

(* moka::future::Cache built with time_to_idle(5 * 60 s): an entry expires
   SessionIdleTtl minutes after its last get or insert, and an expired entry
   is never returned; contains_key does not count as a read *)
SessionIdleTtl == 5
NotCached == -1             \* no entry was ever inserted under the id
(* Cache::get resets the idle time of the entry it returns *)
CacheTouch(dir, idl, sid) == IF dir[sid] # 0 THEN [idl EXCEPT ![sid] = 0] ELSE idl

(* futures::channel::mpsc::unbounded *)
NewChannel == [queue |-> <<>>, rxAlive |-> TRUE]
(* UnboundedSender::unbounded_send: fails once the receiver is gone *)
CanSend(cs, c) == cs[c].rxAlive
UnboundedSend_Front(cs, c, data) == [cs EXCEPT ![c].queue = <<data>> \o @]

UnboundedSend(cs, c, data) == [cs EXCEPT ![c].queue = Append(@, data)]

RouteOf_SpecialIncludesLimit(tag) ==
    IF tag = NoTag THEN "forward"
    ELSE IF tag <= RESERVED_SUBPROTOCOL_TAG_UPPER_LIMIT THEN "drop"
    ELSE IF tag <= RESERVED_SESSION_TAG_UPPER_LIMIT - 1 THEN "session"
    ELSE "forward"

(* the match on data.application_tag in the SessionsManagement process, lines 376-432 *)
RouteOf(tag) ==
    IF tag = NoTag THEN "forward"
    ELSE IF tag <= RESERVED_SUBPROTOCOL_TAG_UPPER_LIMIT - 1 THEN "drop"
    ELSE IF tag <= RESERVED_SESSION_TAG_UPPER_LIMIT - 1 THEN "session"
    ELSE "forward"

RtrIdle == [pc |-> "recv"]

(* what a router step leaves in facRes *)
RouterDid(step, pk, outcome) ==
    [op |-> "router", step |-> step, pkt |-> pk, outcome |-> outcome]

(* dropping a receiver closes the channel and discards what is queued in it *)
DropReceiver(ch) == [queue |-> <<>>, rxAlive |-> FALSE]

(* The router takes a packet: drops it, forwards it, or starts the session
   path up to sessions.get(..).await (lines 376-385) *)
RouterReceive(pk) ==
    /\ ran
    /\ rtr.pc = "recv"
    /\ LET route == RouteOf(pk.application_tag) IN
       CASE route = "forward" ->
              /\ Len(hostOut) < MaxHostOut
              /\ hostOut' = Append(hostOut, pk)
              /\ rtr' = RtrIdle
              /\ facRes' = RouterDid("receive", pk, "forwarded")
              /\ UNCHANGED idle
         [] route = "drop" ->
              /\ rtr' = RtrIdle
              /\ facRes' = RouterDid("receive", pk, "dropped")
              /\ UNCHANGED <<hostOut, idle>>
         [] route = "session" ->
              /\ LET u == UnwrapOffchainKey(pk.plain_text) IN
                 IF u.ok
                 THEN LET sid == NewSessionId(pk.application_tag, u.peer) IN
                      /\ rtr' = [pc |-> IF sessions[sid] # 0 THEN "found" ELSE "fresh",
                                 sid |-> sid, data |-> u.data, sender |-> sessions[sid]]
                      /\ idle' = CacheTouch(sessions, idle, sid)
                      /\ facRes' = RouterDid("receive", pk, "lookup")
                 ELSE /\ rtr' = RtrIdle
                      /\ facRes' = RouterDid("receive", pk, "undecodable")
                      /\ UNCHANGED idle
              /\ UNCHANGED hostOut
    /\ UNCHANGED <<sessions, chans, incoming, incomingOpen, handed, ns>>
    /\ UNCHANGED <<netVars, runVars, sendVars, pingVars, tmr, evq, calls>>

RouterDeliver_StopsOnClosed ==
    /\ rtr.pc = "found"
    /\ IF CanSend(chans, rtr.sender)
       THEN /\ Len(chans[rtr.sender].queue) < MaxQueue
            /\ chans' = UnboundedSend(chans, rtr.sender, rtr.data)
            /\ facRes' = [op |-> "router", step |-> "deliver", outcome |-> "delivered"]
            /\ rtr' = RtrIdle
       ELSE /\ facRes' = [op |-> "router", step |-> "deliver", outcome |-> "closed"]
            /\ rtr' = [pc |-> "stopped"]
            /\ UNCHANGED chans
    /\ UNCHANGED <<sessions, incoming, incomingOpen, hostOut, handed, ns>>
    /\ UNCHANGED <<netVars, runVars, sendVars, pingVars, idle, tmr, evq, calls>>

(* sessions.get returned a sender: lines 386-393 *)
RouterDeliver ==
    /\ rtr.pc = "found"
    /\ IF CanSend(chans, rtr.sender)
       THEN /\ Len(chans[rtr.sender].queue) < MaxQueue
            /\ chans' = UnboundedSend(chans, rtr.sender, rtr.data)
            /\ facRes' = [op |-> "router", step |-> "deliver", outcome |-> "delivered"]
       ELSE /\ facRes' = [op |-> "router", step |-> "deliver", outcome |-> "closed"]
            /\ UNCHANGED chans
    /\ rtr' = RtrIdle
    /\ UNCHANGED <<sessions, incoming, incomingOpen, hostOut, handed, ns>>
    /\ UNCHANGED <<netVars, runVars, sendVars, pingVars, idle, tmr, evq, calls>>

(* sessions.get returned None: a new channel and Session, lines 395-418 *)
RouterOpen_RefusedInserts ==
    /\ rtr.pc = "fresh"
    /\ Len(chans) < MaxChans
    /\ LET c == Len(chans) + 1 IN
       /\ incoming' = IF incomingOpen THEN Append(incoming, [id |-> rtr.sid, rx |-> c])
                                      ELSE incoming
       /\ chans' = IF incomingOpen
                   THEN UnboundedSend(Append(chans, NewChannel), c, rtr.data)
                   ELSE Append(chans, DropReceiver(NewChannel))
       /\ rtr' = [pc |-> "insert", sid |-> rtr.sid, tx |-> c]
       /\ facRes' = [op |-> "router", step |-> "open",
                     outcome |-> IF incomingOpen THEN "enqueued" ELSE "refused"]
    /\ UNCHANGED <<sessions, incomingOpen, hostOut, handed, ns>>
    /\ UNCHANGED <<netVars, runVars, sendVars, pingVars, idle, tmr, evq, calls>>

RouterOpen ==
    /\ rtr.pc = "fresh"
    /\ IF incomingOpen
       THEN /\ Len(chans) < MaxChans
            /\ LET c == Len(chans) + 1 IN
               /\ incoming' = Append(incoming, [id |-> rtr.sid, rx |-> c])
               /\ chans' = UnboundedSend(Append(chans, NewChannel), c, rtr.data)
               /\ rtr' = [pc |-> "insert", sid |-> rtr.sid, tx |-> c]
               /\ facRes' = [op |-> "router", step |-> "open", outcome |-> "enqueued"]
       ELSE /\ rtr' = RtrIdle
            /\ facRes' = [op |-> "router", step |-> "open", outcome |-> "refused"]
            /\ UNCHANGED <<incoming, chans>>
    /\ UNCHANGED <<sessions, incomingOpen, hostOut, handed, ns>>
    /\ UNCHANGED <<netVars, runVars, sendVars, pingVars, idle, tmr, evq, calls>>

RouterInsert_Forgotten ==
    /\ rtr.pc = "insert"
    /\ rtr' = RtrIdle
    /\ facRes' = [op |-> "router", step |-> "insert", outcome |-> "opened"]
    /\ UNCHANGED <<sessions, chans, incoming, incomingOpen, hostOut, handed, ns>>
    /\ UNCHANGED <<netVars, runVars, sendVars, pingVars, idle, tmr, evq, calls>>

(* sessions.insert(session_id, tx).await, line 420 *)
RouterInsert ==
    /\ rtr.pc = "insert"
    /\ sessions' = [sessions EXCEPT ![rtr.sid] = rtr.tx]
    /\ idle' = [idle EXCEPT ![rtr.sid] = 0]
    /\ rtr' = RtrIdle
    /\ facRes' = [op |-> "router", step |-> "insert", outcome |-> "opened"]
    /\ UNCHANGED <<chans, incoming, incomingOpen, hostOut, handed, ns>>
    /\ UNCHANGED <<netVars, runVars, sendVars, pingVars, tmr, evq, calls>>

(* hopr_crypto_random::random_integer(start, Some(end)): the values it can return *)
RandomInteger(start, end) == {t \in TagUniverse : start <= t /\ t < end}

DrawnTags_FromZero == RandomInteger(0, RESERVED_SESSION_TAG_UPPER_LIMIT)

(* the tags one draw of new_session can yield, lines 506-509 *)
DrawnTags == RandomInteger(RESERVED_SUBPROTOCOL_TAG_UPPER_LIMIT, RESERVED_SESSION_TAG_UPPER_LIMIT)

(* one round of the loop of new_session, lines 506-513: draw a tag and keep
   the id when the directory does not hold it *)
PickRound(dir, peer, before) ==
    {IF dir[NewSessionId(t, peer)] = 0 THEN t ELSE prev : t \in DrawnTags, prev \in before}

(* the values session_id can hold after n more rounds, lines 504-514
   (held is never empty; the test makes each round be computed in turn) *)
RECURSIVE PickRounds(_, _, _, _)
PickRounds(dir, peer, n, held) ==
    IF n = 0 \/ held = {} THEN held
    ELSE PickRounds(dir, peer, n - 1, PickRound(dir, peer, held))

PickOutcomes(dir, peer, n) == PickRounds(dir, peer, n, {NoTag})

ApiNoSessionId == "Failed to generate a non-occupied session ID"

(* new_session up to the choice of the id, lines 504-517 *)
NewSessionPick(c, peer) ==
    /\ ns[c].pc = "idle"
    /\ \E t \in PickOutcomes(sessions, peer, SessionIdAttempts) :
        IF t = NoTag
        THEN /\ facRes' = [op |-> "new_session", caller |-> c, peer |-> peer,
                           result |-> "Api", msg |-> ApiNoSessionId]
             /\ UNCHANGED ns
        ELSE /\ facRes' = [op |-> "new_session_pick", caller |-> c]
             /\ ns' = [ns EXCEPT ![c] = [pc |-> "insert", sid |-> NewSessionId(t, peer)]]
    /\ UNCHANGED <<sessions, chans, incoming, incomingOpen, hostOut, handed, rtr>>
    /\ UNCHANGED <<netVars, runVars, sendVars, pingVars, idle, tmr, evq, calls>>

(* new_session from the channel to the returned Session, lines 524-538 *)
NewSessionInsert(c) ==
    /\ ns[c].pc = "insert"
    /\ Len(chans) < MaxChans
    /\ LET ch == Len(chans) + 1
           session == [id |-> ns[c].sid, rx |-> ch] IN
       /\ chans' = Append(chans, NewChannel)
       /\ sessions' = [sessions EXCEPT ![ns[c].sid] = ch]
       /\ idle' = [idle EXCEPT ![ns[c].sid] = 0]
       /\ handed' = handed \cup {session}
       /\ facRes' = [op |-> "new_session", caller |-> c, peer |-> ns[c].sid[2],
                     result |-> "Ok", session |-> session]
    /\ ns' = [ns EXCEPT ![c] = [pc |-> "idle"]]
    /\ UNCHANGED <<incoming, incomingOpen, hostOut, rtr>>
    /\ UNCHANGED <<netVars, runVars, sendVars, pingVars, tmr, evq, calls>>

(* a Session is dropped by its holder: the receiver of its channel goes away *)
DropSession(c) ==
    /\ c \in 1 .. Len(chans)
    /\ chans[c].rxAlive
    /\ chans' = [chans EXCEPT ![c] = DropReceiver(@)]
    /\ facRes' = [op |-> "drop_session"]
    /\ UNCHANGED <<sessions, incoming, incomingOpen, hostOut, handed, rtr, ns>>
    /\ UNCHANGED <<netVars, runVars, sendVars, pingVars, idle, tmr, evq, calls>>

(* the host drops the receiver of incoming_session_queue, and with it the
   Sessions still queued there *)
CloseIncoming ==
    /\ incomingOpen
    /\ incomingOpen' = FALSE
    /\ chans' = [c \in 1 .. Len(chans) |->
                    IF \E i \in 1 .. Len(incoming) : incoming[i].rx = c
                    THEN DropReceiver(chans[c]) ELSE chans[c]]
    /\ facRes' = [op |-> "close_incoming"]
    /\ UNCHANGED <<sessions, incoming, hostOut, handed, rtr, ns>>
    /\ UNCHANGED <<netVars, runVars, sendVars, pingVars, idle, tmr, evq, calls>>

(* the directory entries that reach time_to_idle when one more minute passes *)
Expiring(dir, idl) == {sid \in SessionIds : dir[sid] # 0 /\ idl[sid] + 1 >= SessionIdleTtl}

SessionTick_KeepsExpired ==
    /\ rtr.pc \in {"recv", "insert"}
    /\ \E sid \in SessionIds : sessions[sid] # 0
    /\ idle' = [sid \in SessionIds |->
                   IF sessions[sid] # 0 /\ idle[sid] < SessionIdleTtl
                   THEN idle[sid] + 1 ELSE idle[sid]]
    /\ facRes' = [op |-> "minute", evicted |-> {}]
    /\ UNCHANGED <<sessions, chans, incoming, incomingOpen, hostOut, handed, rtr, ns>>
    /\ UNCHANGED <<netVars, runVars, sendVars, pingVars, tmr, evq, calls>>

(* A minute passes for the directory: every entry grows a minute older, and the
   entries that reach time_to_idle are evicted, which drops the sender they
   hold.  The router has no await point between sessions.get (line 385) and
   the sends that follow it (391, 404), so no time passes there. *)
SessionTick ==
    /\ rtr.pc \in {"recv", "insert"}
    /\ \E sid \in SessionIds : sessions[sid] # 0
    /\ idle' = [sid \in SessionIds |-> IF sessions[sid] # 0 THEN idle[sid] + 1 ELSE idle[sid]]
    /\ sessions' = [sid \in SessionIds |->
                       IF sid \in Expiring(sessions, idle) THEN 0 ELSE sessions[sid]]
    /\ facRes' = [op |-> "minute", evicted |-> Expiring(sessions, idle)]
    /\ UNCHANGED <<chans, incoming, incomingOpen, hostOut, handed, rtr, ns>>
    /\ UNCHANGED <<netVars, runVars, sendVars, pingVars, tmr, evq, calls>>

(* OnceLock::set(..).expect(..): the cell filled by call k, or the panic *)
(* futures::channel::mpsc::channel(buffer): the buffer of the network_events
   channel (MAXIMUM_NETWORK_UPDATE_EVENT_QUEUE_SIZE is 4000; the model keeps
   the mechanism and a buffer of 2) *)
EventQueueSize == 2

EventsInit == [queue |-> <<>>, rxAlive |-> TRUE, emits |-> 0, last |-> "none"]

(* Sender::start_send: refused when the receiver is gone or this sender is
   parked; otherwise the message is queued, and the sender parks itself when
   the queue then holds more than the buffer (every sender has one
   guaranteed slot on top of the buffer) *)
MpscStartSend(queue, rxAlive, parked, msg) ==
    IF ~rxAlive THEN [ok |-> FALSE, err |-> "disconnected", queue |-> queue, parked |-> parked]
    ELSE IF parked THEN [ok |-> FALSE, err |-> "full", queue |-> queue, parked |-> parked]
    ELSE [ok |-> TRUE, err |-> "none", queue |-> Append(queue, msg),
          parked |-> Len(queue) + 1 > EventQueueSize]

(* ExternalNetworkInteractions::emit, adaptors/network.rs 28-32: the event is
   sent through a new clone of the emitter, which starts unparked; a failure
   is logged and the event dropped *)
Emit(q, event) ==
    LET r == MpscStartSend(q.queue, q.rxAlive, FALSE, event) IN
    [q EXCEPT !.queue = r.queue, !.emits = @ + 1,
              !.last = IF r.ok THEN "sent" ELSE r.err]

(* the calls that may overlap on one peer: their slots *)
CallSlots == 1 .. 2
CallIdle == [pc |-> "idle"]
CallsInit(rec) == [slot |-> [k \in CallSlots |-> CallIdle], serial |-> rec, begun |-> 0]

OverlapCalls ==
    {[op |-> "update", ping |-> "Ok", latency |-> 123, version |-> None],
     [op |-> "update", ping |-> "Err", latency |-> 0, version |-> None],
     [op |-> "add", addrs |-> {"a1"}]}

(* Network::update or Network::add on a store *)
CallApplied(store, t, p, call) ==
    IF call.op = "update"
    THEN NetworkUpdate(store, t, p, call.ping, call.latency, call.version).store
    ELSE NetworkAdd(store, t, p, "IncomingConnection", call.addrs).store

(* whether the call reaches db.update_network_peer: update returns before it
   on CloseConnection (network.rs 245-247), add skips it for an ignored peer
   (152) *)
CallWrites(read, t, call, out) ==
    IF call.op = "update" THEN out # read
    ELSE ~ShouldStillBeIgnored(read, t)

(* execute_on_tick(cycle, action), timer.rs.  Time is in ticks of the
   loop's clock; an invocation of the action needs `left` more ticks of work
   and either yields to the executor while it works or does its work inside
   one poll, which the select cannot interrupt *)
Cycle == 3
Works == 0 .. Cycle + 1
NoInvocation == 0

TimerInit ==
    [pc |-> "loop", now |-> 0, start |-> 0, wake |-> 0, left |-> 0, yields |-> TRUE,
     ticks |-> 0, cur |-> NoInvocation, inflight |-> {}, done |-> {}, cut |-> {}]

TimerStart_ResumesCut(work, yields) ==
    /\ tmr.pc = "loop"
    /\ tmr.ticks < MaxTicks
    /\ LET id == IF tmr.cur \in tmr.cut THEN tmr.cur ELSE tmr.ticks + 1 IN
       /\ tmr' = [tmr EXCEPT !.pc = "select", !.start = tmr.now, !.left = work,
                             !.yields = yields, !.ticks = @ + 1, !.cur = id,
                             !.inflight = @ \cup {id}]
       /\ facRes' = [op |-> "timer", step |-> "start", id |-> id, logged |-> FALSE]
    /\ UNCHANGED <<netVars, runVars, sessVars, sendVars, pingVars, evq, calls>>

(* loop head to the select: start is taken and a new future of the action is
   made and first polled, lines 22-29 *)
TimerStart(work, yields) ==
    /\ tmr.pc = "loop"
    /\ tmr.ticks < MaxTicks
    /\ LET id == tmr.ticks + 1 IN
       /\ tmr' = [tmr EXCEPT !.pc = "select", !.start = tmr.now, !.left = work,
                             !.yields = yields, !.ticks = @ + 1, !.cur = id,
                             !.inflight = @ \cup {id}]
       /\ facRes' = [op |-> "timer", step |-> "start", id |-> id, logged |-> FALSE]
    /\ UNCHANGED <<netVars, runVars, sessVars, sendVars, pingVars, evq, calls>>

(* a tick of time passes while the select or the pause is pending *)
TimerTime ==
    /\ \/ tmr.pc = "select" /\ tmr.left > 0 /\ (tmr.yields => tmr.now - tmr.start < Cycle)
       \/ tmr.pc = "pause" /\ tmr.now < tmr.wake
    /\ tmr' = [tmr EXCEPT !.now = @ + 1,
                          !.left = IF tmr.pc = "select" THEN @ - 1 ELSE @]
    /\ facRes' = [op |-> "timer", step |-> "time", id |-> NoInvocation, logged |-> FALSE]
    /\ UNCHANGED <<netVars, runVars, sessVars, sendVars, pingVars, evq, calls>>

TimerTimeout_KeepsAction ==
    /\ tmr.pc = "select"
    /\ tmr.yields
    /\ tmr.now - tmr.start >= Cycle
    /\ tmr' = [tmr EXCEPT !.pc = "loop"]
    /\ facRes' = [op |-> "timer", step |-> "timeout", id |-> tmr.cur, logged |-> TRUE]
    /\ UNCHANGED <<netVars, runVars, sessVars, sendVars, pingVars, evq, calls>>

(* Either::Left, line 30: the select is polled with the sleep of one cycle
   over, and the sleep is polled first; the warning is logged and the future
   of the action is dropped with the iteration *)
TimerTimeout ==
    /\ tmr.pc = "select"
    /\ tmr.yields
    /\ tmr.now - tmr.start >= Cycle
    /\ tmr' = [tmr EXCEPT !.pc = "loop", !.inflight = @ \ {tmr.cur},
                          !.cut = @ \cup {tmr.cur}]
    /\ facRes' = [op |-> "timer", step |-> "timeout", id |-> tmr.cur, logged |-> TRUE]
    /\ UNCHANGED <<netVars, runVars, sessVars, sendVars, pingVars, evq, calls>>

(* cycle.checked_sub(action_duration), line 35: None when the action took longer *)
CheckedSub(a, b) == IF a >= b THEN a - b ELSE -1

(* Either::Right, lines 31-38: the action completed, before the cycle elapsed
   or in a poll that ran past it; the loop sleeps what is left of the cycle,
   if anything *)
TimerFinished ==
    /\ tmr.pc = "select"
    /\ tmr.left = 0
    /\ tmr.yields => tmr.now - tmr.start < Cycle
    /\ LET action_duration == tmr.now - tmr.start
           remaining == CheckedSub(Cycle, action_duration) IN
       tmr' = [tmr EXCEPT !.pc = IF remaining >= 0 THEN "pause" ELSE "loop",
                          !.wake = IF remaining >= 0 THEN tmr.now + remaining ELSE @,
                          !.inflight = @ \ {tmr.cur},
                          !.done = @ \cup {tmr.cur}]
    /\ facRes' = [op |-> "timer", step |-> "finished", id |-> tmr.cur, logged |-> FALSE]
    /\ UNCHANGED <<netVars, runVars, sessVars, sendVars, pingVars, evq, calls>>

(* sleep(remaining) is over, line 37: back to the loop head *)
TimerWake ==
    /\ tmr.pc = "pause"
    /\ tmr.now >= tmr.wake
    /\ tmr' = [tmr EXCEPT !.pc = "loop"]
    /\ facRes' = [op |-> "timer", step |-> "woke", id |-> NoInvocation, logged |-> FALSE]
    /\ UNCHANGED <<netVars, runVars, sessVars, sendVars, pingVars, evq, calls>>

OnceLockSet_Overwrites(cs, name, k) == [ok |-> TRUE, cells |-> [cs EXCEPT ![name] = k]]

OnceLockSet(cs, name, k) ==
    IF cs[name] = 0 THEN [ok |-> TRUE, cells |-> [cs EXCEPT ![name] = k]]
                    ELSE [ok |-> FALSE, cells |-> cs]

RunCalls == 1 .. MaxRuns

(* HoprTransport::run up to the await of HoprSwarm::new, lines 228-283: builds
   the ping executor and sets the ping cell *)
RunSetPing(k) ==
    /\ runs[k] = "idle"
    /\ k > 1 => runs[k - 1] # "idle"
    /\ LET r == OnceLockSet(cells, "ping", k) IN
       /\ cells' = r.cells
       /\ runs' = [runs EXCEPT ![k] = IF r.ok THEN "swarm" ELSE "panicked"]
       /\ facRes' = IF r.ok THEN [op |-> "run", call |-> k, result |-> "Pending", msg |-> ""]
                    ELSE [op |-> "run", call |-> k, result |-> "Panic",
                          msg |-> "must set the ping executor only once"]
    /\ UNCHANGED <<netVars, ran, sessVars, sendVars, pingVars, tmr, evq, calls>>

(* HoprTransport::run from line 285: sets the packet sender and the ticket
   aggregation writer and spawns the processes, the session router among them *)
RunSpawn(k) ==
    /\ runs[k] = "swarm"
    /\ LET r1 == OnceLockSet(cells, "process_packet_send", k)
           r2 == OnceLockSet(r1.cells, "process_ticket_aggregate", k)
       IN IF ~r1.ok
          THEN /\ cells' = r1.cells
               /\ runs' = [runs EXCEPT ![k] = "panicked"]
               /\ facRes' = [op |-> "run", call |-> k, result |-> "Panic",
                             msg |-> "must set the packet processing writer only once"]
               /\ UNCHANGED ran
          ELSE IF ~r2.ok
          THEN /\ cells' = r2.cells
               /\ runs' = [runs EXCEPT ![k] = "panicked"]
               /\ facRes' = [op |-> "run", call |-> k, result |-> "Panic",
                             msg |-> "must set the ticket aggregation writer only once"]
               /\ UNCHANGED ran
          ELSE /\ cells' = r2.cells
               /\ runs' = [runs EXCEPT ![k] = "done"]
               /\ facRes' = [op |-> "run", call |-> k, result |-> "Ok", msg |-> ""]
               /\ ran' = TRUE
    /\ UNCHANGED <<netVars, sessVars, sendVars, pingVars, tmr, evq, calls>>

(* the one call of run() of a node *)
Run == RunSetPing(1) \/ RunSpawn(1)

IsReservedTag_Subprotocol(tag) == tag # NoTag /\ tag < RESERVED_SUBPROTOCOL_TAG_UPPER_LIMIT

(* the application-tag test of send_message, lines 549-555 *)
IsReservedTag(tag) == tag # NoTag /\ tag < RESERVED_SESSION_TAG_UPPER_LIMIT

(* HoprTransport::send_message: the result, and whether the path planner and
   the packet sender were reached.  pathOk, enqueueOk and ackOk are what
   resolve_path, send_packet and consume_and_wait answer. *)
FacSendMessage(tag, len, senderSet, pathOk, enqueueOk, ackOk) ==
    IF IsReservedTag(tag)
    THEN [result |-> "Api", msg |-> "Application tag must not be lower than 1024",
          resolves |-> 0, sends |-> 0]
    ELSE IF len > PAYLOAD_SIZE
    THEN [result |-> "Api", msg |-> "Message exceeds the maximum allowed size",
          resolves |-> 0, sends |-> 0]
    ELSE IF ~pathOk
    THEN [result |-> "PathError", msg |-> "", resolves |-> 1, sends |-> 0]
    ELSE IF ~senderSet
    THEN [result |-> "Api", msg |-> "message processing is not yet initialized",
          resolves |-> 1, sends |-> 0]
    ELSE IF ~enqueueOk
    THEN [result |-> "Api", msg |-> "send msg failed to enqueue msg",
          resolves |-> 1, sends |-> 0]
    ELSE IF ~ackOk
    THEN [result |-> "Api", msg |-> "timeout", resolves |-> 1, sends |-> 1]
    ELSE [result |-> "Ok", msg |-> "", resolves |-> 1, sends |-> 1]

PayloadLens == {1, PAYLOAD_SIZE, PAYLOAD_SIZE + 1}

SendMessage(tag, len, pathOk, enqueueOk, ackOk) ==
    /\ resolved < MaxSends
    /\ LET r == FacSendMessage(tag, len, cells.process_packet_send # 0, pathOk, enqueueOk, ackOk) IN
       /\ resolved' = resolved + r.resolves
       /\ sent' = sent + r.sends
       /\ facRes' = [op |-> "send_message", tag |-> tag, len |-> len,
                     result |-> r.result, msg |-> r.msg]
    /\ UNCHANGED <<netVars, runVars, sessVars, pingVars, tmr, evq, calls>>

(* Option::<Duration>::None of a ping() result *)
NoLatency == -1

PingIdle == [pc |-> "idle"]

(* HoprTransport::ping up to the select, lines 459-484: the early returns, the
   observation added to the registry and the probe handed to the executor.
   allowed is the answer of is_allowed_to_access_network, pingerSet whether
   the ping cell is filled. *)
FacPing_AddsFirst(store, t, peer, allowed, pingerSet) ==
    LET r == NetworkAdd(store, t, peer, "ManualPing", {}) IN
    IF ~allowed
    THEN [result |-> "Api", msg |-> "not allowed due to network registry",
          store |-> r.store, submits |-> 0, add |-> r.result]
    ELSE IF peer = Me
    THEN [result |-> "Api", msg |-> "ping to self does not make sense",
          store |-> r.store, submits |-> 0, add |-> r.result]
    ELSE IF ~pingerSet
    THEN [result |-> "Api", msg |-> "ping processing is not yet initialized",
          store |-> r.store, submits |-> 0, add |-> r.result]
    ELSE [result |-> "Pending", msg |-> "", store |-> r.store, submits |-> 1,
          add |-> r.result]

FacPing(store, t, peer, allowed, pingerSet) ==
    IF ~allowed
    THEN [result |-> "Api", msg |-> "not allowed due to network registry",
          store |-> store, submits |-> 0, add |-> None]
    ELSE IF peer = Me
    THEN [result |-> "Api", msg |-> "ping to self does not make sense",
          store |-> store, submits |-> 0, add |-> None]
    ELSE IF ~pingerSet
    THEN [result |-> "Api", msg |-> "ping processing is not yet initialized",
          store |-> store, submits |-> 0, add |-> None]
    ELSE LET r == NetworkAdd(store, t, peer, "ManualPing", {}) IN
         [result |-> "Pending", msg |-> "", store |-> r.store, submits |-> 1,
          add |-> r.result]

(* PingExternalAPI::on_finished_ping of the sink registered with the executor:
   the outcome of a probe is handed to Network::update *)
OnFinishedPing(store, t, peer, ping, latency, version) ==
    NetworkUpdate(store, t, peer, ping, latency, version)

(* HoprTransport::ping, Either::Left of the select, lines 487-490 *)
FacPingTimeout_Forgets(store, peer) ==
    [result |-> "Timeout", latency |-> NoLatency, store |-> DbRemoveNetworkPeer(store, peer)]

FacPingTimeout(store, peer) ==
    [result |-> "Timeout", latency |-> NoLatency, store |-> store]

(* HoprTransport::ping, Either::Right of the select, lines 491-498: the
   latency read back from the record *)
FacPingFinished(store, t, peer, start) ==
    LET status == NetworkGet(store, t, peer) IN
    [result |-> "Ok",
     latency |-> IF status = NoPeer THEN NoLatency ELSE Max(status.last_seen - start, 0)]

(* the history of successful probes in a row after an outcome for p *)
OkRunAfter(p, ping) ==
    IF peers[p] = NoPeer THEN okRun
    ELSE [okRun EXCEPT ![p] = IF ping = "Ok" THEN Min(@ + 1, RecoveryProbes) ELSE 0]

PingCall(peer, allowed) ==
    /\ pg.pc = "idle"
    /\ LET r == FacPing(peers, now, peer, allowed, cells.ping # 0) IN
       /\ submitted + r.submits <= MaxPings
       /\ peers' = r.store
       /\ submitted' = submitted + r.submits
       /\ facRes' = [op |-> "ping", peer |-> peer, allowed |-> allowed,
                     result |-> r.result, msg |-> r.msg, latency |-> NoLatency]
       /\ IF r.result = "Pending"
          THEN /\ pg' = [pc |-> "racing", peer |-> peer, start |-> now]
               /\ netRes' = [op |-> "add", peer |-> peer, result |-> r.add]
               /\ observed' = (observed \/ \E q \in PeerIds : r.store[q] # NoPeer)
          ELSE UNCHANGED <<pg, netRes, observed>>
    /\ UNCHANGED <<now, okRun, runVars, sessVars, sendVars, late, tmr, evq, calls>>

(* the executor finishes the probe before the timer: the sink, then the
   Either::Right branch *)
PingProbeDone(ping, latency, version) ==
    /\ pg.pc = "racing"
    /\ peers[pg.peer] # NoPeer => (ping = "Err" => peers[pg.peer].backoff <= MaxBackoff)
    /\ LET u == OnFinishedPing(peers, now, pg.peer, ping, latency, version)
           r == FacPingFinished(u.store, now, pg.peer, pg.start)
       IN /\ peers' = u.store
          /\ netRes' = [op |-> "update", peer |-> pg.peer, ping |-> ping,
                        latency |-> latency, version |-> version,
                        result |-> u.result, event |-> u.event]
          /\ facRes' = [op |-> "ping", peer |-> pg.peer, allowed |-> TRUE,
                        result |-> r.result, msg |-> "", latency |-> r.latency]
    /\ okRun' = OkRunAfter(pg.peer, ping)
    /\ pg' = PingIdle
    /\ UNCHANGED <<now, observed, runVars, sessVars, sendVars, submitted, late, tmr, evq, calls>>

(* the 30 s timer fires first: the probe stays with the executor *)
PingTimeout ==
    /\ pg.pc = "racing"
    /\ LET r == FacPingTimeout(peers, pg.peer) IN
       /\ peers' = r.store
       /\ facRes' = [op |-> "ping", peer |-> pg.peer, allowed |-> TRUE,
                     result |-> r.result, msg |-> "", latency |-> r.latency]
    /\ late' = late \cup {pg.peer}
    /\ pg' = PingIdle
    /\ UNCHANGED <<now, netRes, okRun, observed, runVars, sessVars, sendVars, submitted, tmr, evq, calls>>

(* the outcome of a probe reaches the sink after its ping() has returned *)
PingLateOutcome(p, ping, latency, version) ==
    /\ p \in late
    /\ peers[p] # NoPeer => (ping = "Err" => peers[p].backoff <= MaxBackoff)
    /\ LET u == OnFinishedPing(peers, now, p, ping, latency, version) IN
       /\ peers' = u.store
       /\ netRes' = [op |-> "update", peer |-> p, ping |-> ping,
                     latency |-> latency, version |-> version,
                     result |-> u.result, event |-> u.event]
    /\ okRun' = OkRunAfter(p, ping)
    /\ late' = late \ {p}
    /\ facRes' = [op |-> "late_probe", peer |-> p]
    /\ UNCHANGED <<now, observed, runVars, sessVars, sendVars, pg, submitted, tmr, evq, calls>>

FacInit ==
    /\ ran = FALSE
    /\ cells = [ping |-> 0, process_packet_send |-> 0, process_ticket_aggregate |-> 0]
    /\ runs = [k \in RunCalls |-> "idle"]
    /\ sessions = [sid \in SessionIds |-> 0]
    /\ chans = <<>>
    /\ incoming = <<>>
    /\ incomingOpen = TRUE
    /\ hostOut = <<>>
    /\ handed = {}
    /\ rtr = RtrIdle
    /\ ns = [c \in Callers |-> [pc |-> "idle"]]
    /\ idle = [sid \in SessionIds |-> NotCached]
    /\ resolved = 0
    /\ sent = 0
    /\ pg = PingIdle
    /\ submitted = 0
    /\ late = {}
    /\ tmr = TimerInit
    /\ evq = EventsInit
    /\ facRes = [op |-> "new"]

----------------------------------------------------------------------------
(* Actions of the Network registry *)

Add(p, origin, addrs) ==
    LET r == NetworkAdd(peers, now, p, origin, addrs) IN
    /\ peers' = r.store
    /\ netRes' = [op |-> "add", peer |-> p, result |-> r.result]
    /\ observed' = (observed \/ \E q \in PeerIds : r.store[q] # NoPeer)
    /\ UNCHANGED <<now, okRun, facVars, evq, calls>>

Remove(p) ==
    LET r == NetworkRemove(peers, p) IN
    /\ peers' = r.store
    /\ netRes' = [op |-> "remove", peer |-> p, result |-> r.result]
    /\ okRun' = [okRun EXCEPT ![p] = 0]
    /\ UNCHANGED <<now, observed, facVars, evq, calls>>

UpdateCall(p, ping, latency, version, maxSent) ==
    /\ peers[p] # NoPeer =>
          /\ peers[p].heartbeats_sent < maxSent
          /\ ping = "Err" => peers[p].backoff <= MaxBackoff
    /\ LET r == NetworkUpdate(peers, now, p, ping, latency, version) IN
       /\ peers' = r.store
       /\ netRes' = [op |-> "update", peer |-> p, ping |-> ping, latency |-> latency,
                     version |-> version, result |-> r.result, event |-> r.event]
    /\ okRun' = IF peers[p] = NoPeer THEN okRun
                ELSE [okRun EXCEPT ![p] = IF ping = "Ok" THEN Min(@ + 1, RecoveryProbes)
                                                         ELSE 0]
    /\ UNCHANGED <<now, observed, facVars, calls>>

Update(p, ping, latency, version, maxSent) ==
    /\ UpdateCall(p, ping, latency, version, maxSent)
    /\ UNCHANGED <<evq, calls>>

(* an update whose caller hands the returned event to emit *)
UpdateEmit(p, ping, latency, version, maxSent) ==
    /\ evq.emits < MaxEmits
    /\ UpdateCall(p, ping, latency, version, maxSent)
    /\ UNCHANGED calls
    /\ evq' = LET event == NetworkUpdate(peers, now, p, ping, latency, version).event IN
              IF event = NoEvent THEN evq ELSE Emit(evq, event)

(* the consumer of network_events_rx takes the oldest event *)
EventsReceive ==
    /\ evq.rxAlive
    /\ evq.queue # <<>>
    /\ evq' = [evq EXCEPT !.queue = Tail(@), !.last = "received"]
    /\ netRes' = [op |-> "receive_event"]
    /\ UNCHANGED <<peers, now, okRun, observed, facVars, calls>>

(* the consumer drops network_events_rx, and the queued events with it *)
EventsClose ==
    /\ evq.rxAlive
    /\ evq' = [evq EXCEPT !.queue = <<>>, !.rxAlive = FALSE, !.last = "closed"]
    /\ netRes' = [op |-> "close_events"]
    /\ UNCHANGED <<peers, now, okRun, observed, facVars, calls>>

(* An update or add call on the shared Network (Arc<Network>, no lock) from
   its db.get_network_peer(..).await to its db.update_network_peer(..).await:
   the call keeps the record it read.  serial is the record of the peer when
   the calls submitted so far are applied one after another. *)
CallBegin(k, p, call) ==
    /\ calls.slot[k].pc = "idle"
    /\ calls.begun < MaxCalls
    /\ peers[p] # NoPeer
    /\ (call.op = "update" /\ call.ping = "Err")
       => (peers[p].backoff <= MaxBackoff /\ calls.serial.backoff <= MaxBackoff)
    /\ calls' = [calls EXCEPT
                    !.slot[k] = [pc |-> "read", peer |-> p, call |-> call,
                                 read |-> DbGetNetworkPeer(peers, p)],
                    !.serial = CallApplied([peers EXCEPT ![p] = calls.serial], now, p, call)[p],
                    !.begun = @ + 1]
    /\ netRes' = [op |-> "begin", slot |-> k, peer |-> p, call |-> call]
    /\ UNCHANGED <<peers, now, okRun, observed, facVars, evq>>

(* the rest of the call: the record computed from what was read is written *)
CallEnd(k) ==
    /\ calls.slot[k].pc = "read"
    /\ LET c == calls.slot[k]
           out == CallApplied([peers EXCEPT ![c.peer] = c.read], now, c.peer, c.call)[c.peer] IN
       /\ peers' = IF CallWrites(c.read, now, c.call, out)
                   THEN DbUpdateNetworkPeer(peers, c.peer, out)
                   ELSE peers
       /\ netRes' = [op |-> "end", slot |-> k, peer |-> c.peer, call |-> c.call]
    /\ calls' = [calls EXCEPT !.slot[k] = CallIdle]
    /\ UNCHANGED <<now, okRun, observed, facVars, evq>>

Tick(maxTime) ==
    /\ now < maxTime
    /\ now' = now + 1
    /\ netRes' = [op |-> "tick"]
    /\ UNCHANGED <<peers, okRun, observed, facVars, evq, calls>>

NetInit ==
    /\ peers = [p \in PeerIds |-> NoPeer]
    /\ now = 1
    /\ netRes = [op |-> "new"]
    /\ okRun = [p \in PeerIds |-> 0]
    /\ observed = FALSE
    /\ calls = CallsInit(NoPeer)

(* The registry under every call with every argument *)
Init == NetInit /\ FacInit

Next ==
    \/ \E p \in ProbedPeers, o \in Origins, a \in SUBSET Addrs : Add(p, o, a)
    \/ \E p \in ProbedPeers : Remove(p)
    \/ \E p \in ProbedPeers, l \in Latencies, v \in Versions : Update(p, "Ok", l, v, MaxHeartbeats)
    \/ \E p \in ProbedPeers, v \in Versions : Update(p, "Err", 0, v, MaxHeartbeats)
    \/ Tick(MaxTime)

Spec == Init /\ [][Next]_vars

(* The registry under long runs of probes: enough of them to take a quality
   from 0 to 1 and back, with one origin and no addresses *)
NextProbes ==
    \/ \E p \in ProbedPeers : Add(p, "IncomingConnection", {})
    \/ \E p \in ProbedPeers : Remove(p)
    \/ \E p \in ProbedPeers, l \in Latencies, v \in Versions : Update(p, "Ok", l, v, MaxProbes)
    \/ \E p \in ProbedPeers, v \in Versions : Update(p, "Err", 0, v, MaxProbes)
    \/ Tick(MaxProbeTime)

SpecProbes == Init /\ [][NextProbes]_vars

(* The registry with two other peers, short runs of probes without versions *)
NextPeers ==
    \/ \E p \in PeerIds : Add(p, "IncomingConnection", {})
    \/ \E p \in PeerIds : Remove(p)
    \/ \E p \in PeerIds, l \in Latencies : Update(p, "Ok", l, None, MaxPairProbes)
    \/ \E p \in PeerIds : Update(p, "Err", 0, None, MaxPairProbes)
    \/ Tick(MaxPairTime)

SpecPeers == Init /\ [][NextPeers]_vars

(* The registry built over a peer store that already holds a record of p1:
   Network::new takes the store as it is.  The record has any quality that
   is a multiple of quality_step, a backoff at either limit or between them,
   and is ignored since the first tick or not. *)
StoredQualities == {k * QualityStep : k \in 0 .. RecoveryProbes}
StoredBackoffs == {BackoffMin, Powf(BackoffMin), BackoffMax}
StoredRecords ==
    {[NewPeerStatus("IncomingConnection", b) EXCEPT !.quality = q, !.ignored = i] :
        q \in StoredQualities, b \in StoredBackoffs, i \in {Never, 1}}

InitStored ==
    /\ \E rec \in StoredRecords :
           peers = [p \in PeerIds |-> IF p = "p1" THEN rec ELSE NoPeer]
    /\ now = 1
    /\ netRes = [op |-> "new"]
    /\ okRun = [p \in PeerIds |-> 0]
    /\ observed = TRUE
    /\ calls = CallsInit(NoPeer)
    /\ FacInit

NextStored ==
    \/ \E l \in Latencies : Update("p1", "Ok", l, None, MaxStoredProbes)
    \/ Update("p1", "Err", 0, None, MaxStoredProbes)
    \/ Tick(MaxProbeTime)

SpecStored == InitStored /\ [][NextStored]_vars

(* The session router and new_session callers over the session directory *)
SessionPackets ==
    {pk \in Packets : \/ /\ pk.application_tag = RESERVED_SUBPROTOCOL_TAG_UPPER_LIMIT
                         /\ pk.plain_text \in {<<>>, <<"kQ", 170>>, <<"kQ", 187>>}
                      \/ /\ pk.application_tag = RESERVED_SESSION_TAG_UPPER_LIMIT - 1
                         /\ pk.plain_text = <<"kR", 170>>}

NextSessions ==
    \/ Run
    \/ \E pk \in SessionPackets : RouterReceive(pk)
    \/ RouterDeliver
    \/ RouterOpen
    \/ RouterInsert
    \/ \E c \in Callers, q \in ClientPeers : NewSessionPick(c, q)
    \/ \E c \in Callers : NewSessionInsert(c)
    \/ \E c \in 1 .. MaxChans : DropSession(c)
    \/ CloseIncoming

SpecSessions == Init /\ [][NextSessions]_vars

(* The session router over packets with every tag *)
RouterPackets == {pk \in Packets : pk.plain_text \in {<<>>, <<"kQ", 170>>}}

NextRouter ==
    \/ Run
    \/ \E pk \in RouterPackets : RouterReceive(pk)
    \/ RouterDeliver
    \/ RouterOpen
    \/ RouterInsert

SpecRouter == Init /\ [][NextRouter]_vars

(* The session router over two payloads of one session and two packets for the
   host, with the session's receiver dropped at any time *)
OrderPackets ==
    {pk \in Packets :
        \/ /\ pk.application_tag = RESERVED_SUBPROTOCOL_TAG_UPPER_LIMIT
           /\ pk.plain_text \in {<<"kQ", 170>>, <<"kQ", 187>>}
        \/ /\ pk.application_tag \in {NoTag, RESERVED_SESSION_TAG_UPPER_LIMIT}
           /\ pk.plain_text = <<"kQ", 170>>}

NextOrder ==
    \/ Run
    \/ \E pk \in OrderPackets : RouterReceive(pk)
    \/ RouterDeliver
    \/ RouterOpen
    \/ RouterInsert
    \/ \E c \in 1 .. MaxChans : DropSession(c)

SpecOrder == Init /\ [][NextOrder]_vars

(* The session router over the three demux errors: an undecodable packet, a
   session whose receiver is gone, and a closed incoming-sessions queue *)
DemuxPackets ==
    {pk \in Packets :
        \/ /\ pk.application_tag = RESERVED_SUBPROTOCOL_TAG_UPPER_LIMIT
           /\ pk.plain_text \in {<<>>, <<"kQ", 170>>}
        \/ /\ pk.application_tag \in {0, RESERVED_SESSION_TAG_UPPER_LIMIT}
           /\ pk.plain_text = <<"kQ", 170>>}

NextDemux ==
    \/ Run
    \/ \E pk \in DemuxPackets : RouterReceive(pk)
    \/ RouterDeliver
    \/ RouterOpen
    \/ RouterInsert
    \/ \E c \in 1 .. MaxChans : DropSession(c)
    \/ CloseIncoming

SpecDemux == Init /\ [][NextDemux]_vars

(* The session directory over time: sessions opened by the router and by
   new_session, and the minutes that evict them *)
EvictPackets ==
    {pk \in Packets : /\ pk.application_tag = RESERVED_SUBPROTOCOL_TAG_UPPER_LIMIT
                      /\ pk.plain_text = <<"kQ", 170>>}

NextEvict ==
    \/ Run
    \/ \E pk \in EvictPackets : RouterReceive(pk)
    \/ RouterDeliver
    \/ RouterOpen
    \/ RouterInsert
    \/ \E c \in Callers, q \in ClientPeers : NewSessionPick(c, q)
    \/ \E c \in Callers : NewSessionInsert(c)
    \/ SessionTick

SpecEvict == Init /\ [][NextEvict]_vars

(* The execute_on_tick loop over actions that need from no time to more than
   a cycle *)
NextTimer ==
    \/ \E work \in Works, yields \in BOOLEAN : TimerStart(work, yields)
    \/ TimerTime
    \/ TimerTimeout
    \/ TimerFinished
    \/ TimerWake

SpecTimer == Init /\ [][NextTimer]_vars

(* The registry with every event of an update handed to the network_events
   channel, and a consumer that takes events or goes away at any time *)
NextEvents ==
    \/ Add("p1", "IncomingConnection", {})
    \/ \E l \in Latencies : UpdateEmit("p1", "Ok", l, "1.2.4", MaxEmits)
    \/ UpdateEmit("p1", "Err", 0, None, MaxEmits)
    \/ EventsReceive
    \/ EventsClose

SpecEvents == Init /\ [][NextEvents]_vars

(* Overlapping update and add calls on one stored peer *)
OverlapRecords ==
    {rec \in StoredRecords : /\ rec.backoff = BackoffMin /\ rec.ignored = Never
                             /\ rec.quality \in {0, 3 * QualityStep}}

InitOverlap ==
    /\ \E rec \in OverlapRecords :
           /\ peers = [p \in PeerIds |-> IF p = "p1" THEN rec ELSE NoPeer]
           /\ calls = CallsInit(rec)
    /\ now = 1
    /\ netRes = [op |-> "new"]
    /\ okRun = [p \in PeerIds |-> 0]
    /\ observed = TRUE
    /\ FacInit

NextOverlap ==
    \/ \E k \in CallSlots, call \in OverlapCalls : CallBegin(k, "p1", call)
    \/ \E k \in CallSlots : CallEnd(k)

SpecOverlap == InitOverlap /\ [][NextOverlap]_vars

(* send_message before and after run() *)
NextSend ==
    \/ Run
    \/ \E tag \in TagOptions, len \in PayloadLens, po, eo, ao \in BOOLEAN :
           SendMessage(tag, len, po, eo, ao)

SpecSend == Init /\ [][NextSend]_vars

(* Manual pings and send_message around the calls of run() *)
PingPeers == {Me, "p1"}

NextPing ==
    \/ \E k \in RunCalls : RunSetPing(k)
    \/ \E k \in RunCalls : RunSpawn(k)
    \/ \E p \in PingPeers, a \in BOOLEAN : PingCall(p, a)
    \/ \E l \in Latencies : PingProbeDone("Ok", l, "1.2.4")
    \/ PingProbeDone("Err", 0, None)
    \/ PingTimeout
    \/ \E p \in OtherPeers, l \in Latencies : PingLateOutcome(p, "Ok", l, "1.2.4")
    \/ \E p \in OtherPeers : PingLateOutcome(p, "Err", 0, None)
    \/ SendMessage(RESERVED_SESSION_TAG_UPPER_LIMIT, 1, TRUE, TRUE, TRUE)
    \/ \E p \in OtherPeers \cap PingPeers : Add(p, "IncomingConnection", {})
    \/ \E p \in OtherPeers \cap PingPeers : Remove(p)
    \/ Tick(MaxProbeTime)

SpecPing == Init /\ [][NextPing]_vars

----------------------------------------------------------------------------
(* Properties of the Network registry *)

(* C1: the node's own peer id is never stored: add, remove and update on it
   fail with DisallowedOperationOnOwnPeerIdError and leave the store as it
   was, and it is in no result of peer_filter, find_peers_to_ping or
   network_connected_peers. *)
C1_OwnCallRefused ==
    /\ netRes'.op \in {"add", "remove", "update"}
    /\ netRes'.peer = Me
    => /\ netRes'.result = DisallowedOnOwn
       /\ peers' = peers

C1_OwnIdAbsent ==
    /\ peers[Me] = NoPeer
    /\ Me \notin PeerFilter(peers)
    /\ Me \notin NetworkConnectedPeers(peers)
    /\ \A th \in Thresholds : Me \notin FindPeersToPing(peers, th)

C1_SelfNeverStored == []C1_OwnIdAbsent /\ [][C1_OwnCallRefused]_vars

C1_Witness ==
    /\ netRes.op = "add" /\ netRes.peer = Me /\ netRes.result = DisallowedOnOwn
    /\ PeerFilter(peers) # {}
    /\ \E th \in Thresholds : FindPeersToPing(peers, th) # {}

(* C2: every stored peer record has a quality between 0 and 1. *)
C2_QualityInRange ==
    \A p \in PeerIds : peers[p] # NoPeer =>
        /\ 0 <= peers[p].quality
        /\ peers[p].quality <= QualityOne

(* a peer at quality 1 that a further successful probe has left there *)
C2_Witness ==
    \E p \in OtherPeers :
        /\ peers[p] # NoPeer
        /\ peers[p].quality = QualityOne
        /\ peers[p].heartbeats_succeeded * QualityStep > QualityOne
        /\ netRes.op = "update" /\ netRes.ping = "Ok"

(* C3: every stored peer record has backoff_min <= backoff <= backoff_max. *)
C3_BackoffInRange ==
    \A p \in PeerIds : peers[p] # NoPeer =>
        /\ BackoffMin <= peers[p].backoff
        /\ peers[p].backoff <= BackoffMax

(* C9: a successful probe of a stored peer sets last_seen to now, the latency,
   backoff_min, the quality min(1, q + quality_step), both counters one up
   and the version, and returns UpdateQuality with the new quality. *)
C9_OkUpdateStep ==
    \A p \in OtherPeers :
        (/\ netRes'.op = "update" /\ netRes'.peer = p /\ netRes'.ping = "Ok"
         /\ peers[p] # NoPeer)
        => LET q2 == Min(QualityOne, F64AddStep(peers[p].quality)) IN
           /\ peers'[p] # NoPeer
           /\ peers'[p].last_seen = now
           /\ peers'[p].last_seen_latency = netRes'.latency
           /\ peers'[p].backoff = BackoffMin
           /\ peers'[p].quality = q2
           /\ peers'[p].heartbeats_sent = peers[p].heartbeats_sent + 1
           /\ peers'[p].heartbeats_succeeded = peers[p].heartbeats_succeeded + 1
           /\ peers'[p].peer_version = netRes'.version
           /\ netRes'.result = "Ok"
           /\ netRes'.event = [type |-> "UpdateQuality", peer |-> p, quality |-> q2]

C9_OkUpdate == [][C9_OkUpdateStep]_vars

(* a successful probe of a peer that was at quality 1 and had a version *)
C9_Witness ==
    \E p \in OtherPeers :
        /\ netRes.op = "update" /\ netRes.peer = p /\ netRes.ping = "Ok"
        /\ netRes.version = "2.0.0"
        /\ netRes.event = [type |-> "UpdateQuality", peer |-> p, quality |-> QualityOne]
        /\ peers[p] # NoPeer
        /\ peers[p].heartbeats_succeeded * QualityStep > QualityOne

(* C10: a failed probe of a stored peer leaves last_seen, the latency and
   heartbeats_succeeded alone, sets the quality max(0, q - quality_step) and
   the backoff min(backoff_max, backoff^backoff_exponent). *)
C10_ErrUpdateStep ==
    \A p \in OtherPeers :
        (/\ netRes'.op = "update" /\ netRes'.peer = p /\ netRes'.ping = "Err"
         /\ peers[p] # NoPeer)
        => /\ peers'[p] # NoPeer
           /\ peers'[p].last_seen = peers[p].last_seen
           /\ peers'[p].last_seen_latency = peers[p].last_seen_latency
           /\ peers'[p].heartbeats_succeeded = peers[p].heartbeats_succeeded
           /\ peers'[p].quality = Max(0, F64SubStep(peers[p].quality))
           /\ peers'[p].backoff = Min(BackoffMax, Powf(peers[p].backoff))

C10_ErrUpdate == [][C10_ErrUpdateStep]_vars

(* C11 as claimed: a failed probe of a stored peer whose new quality
   max(0, q - quality_step) is below quality_step / 2 returns CloseConnection,
   every other failed probe of a stored peer returns UpdateQuality with the
   new quality, and after CloseConnection the peer is still stored and
   has(peer) is true. *)
C11_ErrEvent(p) ==
    LET q2 == Max(0, F64SubStep(peers[p].quality)) IN
    /\ netRes'.result = "Ok"
    /\ IF q2 * 2 < QualityStep
       THEN netRes'.event = [type |-> "CloseConnection", peer |-> p]
       ELSE netRes'.event = [type |-> "UpdateQuality", peer |-> p, quality |-> q2]

C11_ErrStored(p) ==
    /\ netRes'.op = "update" /\ netRes'.peer = p /\ netRes'.ping = "Err"
    /\ peers[p] # NoPeer

C11_CloseClaimedStep ==
    \A p \in OtherPeers :
        C11_ErrStored(p)
        => /\ C11_ErrEvent(p)
           /\ netRes'.event.type = "CloseConnection"
              => /\ peers'[p] # NoPeer
                 /\ NetworkHas(peers', now', p)

C11_CloseClaimed == [][C11_CloseClaimedStep]_vars

(* C11 as amended: the same, with has(peer) true after CloseConnection if it
   was true before the probe. *)
C11_CloseStep ==
    \A p \in OtherPeers :
        C11_ErrStored(p)
        => /\ C11_ErrEvent(p)
           /\ netRes'.event.type = "CloseConnection"
              => /\ peers'[p] # NoPeer
                 /\ NetworkHas(peers, now, p) => NetworkHas(peers', now', p)

C11_CloseAdvisory == [][C11_CloseStep]_vars

(* CloseConnection returned for a visible peer that had been probed with
   success before *)
C11_Witness ==
    \E p \in OtherPeers :
        /\ netRes.op = "update" /\ netRes.peer = p /\ netRes.ping = "Err"
        /\ netRes.event = [type |-> "CloseConnection", peer |-> p]
        /\ peers[p] # NoPeer
        /\ peers[p].heartbeats_succeeded > 0
        /\ NetworkHas(peers, now, p)

(* C12: every update on a stored peer, the one that returns CloseConnection
   included, raises the stored heartbeats_sent by exactly 1; neither counter
   of a stored record ever goes down, and heartbeats_succeeded never exceeds
   heartbeats_sent. *)
C12_CountersOrdered ==
    \A p \in OtherPeers : peers[p] # NoPeer =>
        peers[p].heartbeats_succeeded <= peers[p].heartbeats_sent

C12_CountersStep ==
    \A p \in OtherPeers :
        (peers[p] # NoPeer /\ peers'[p] # NoPeer)
        => /\ peers'[p].heartbeats_sent >= peers[p].heartbeats_sent
           /\ peers'[p].heartbeats_succeeded >= peers[p].heartbeats_succeeded
           /\ (netRes'.op = "update" /\ netRes'.peer = p)
              => peers'[p].heartbeats_sent = peers[p].heartbeats_sent + 1

C12_HeartbeatCounters == []C12_CountersOrdered /\ [][C12_CountersStep]_vars

(* C13: the peer_version of a stored peer changes only on a successful probe,
   which sets it to the reported version; a failed probe leaves it as it was. *)
C13_VersionStep ==
    \A p \in OtherPeers :
        (peers[p] # NoPeer /\ peers'[p] # NoPeer)
        => IF netRes'.op = "update" /\ netRes'.peer = p /\ netRes'.ping = "Ok"
           THEN peers'[p].peer_version = netRes'.version
           ELSE peers'[p].peer_version = peers[p].peer_version

C13_VersionOnSuccess == [][C13_VersionStep]_vars

(* C14: update for another peer that has no record returns Ok(None), stores
   nothing and gives no event; has(peer) is false after it and peer_filter
   returns what it returned before. *)
C14_UnknownUpdateStep ==
    \A p \in OtherPeers :
        (/\ netRes'.op = "update" /\ netRes'.peer = p
         /\ peers[p] = NoPeer)
        => /\ netRes'.result = "Ok"
           /\ netRes'.event = NoEvent
           /\ peers' = peers
           /\ ~NetworkHas(peers', now', p)
           /\ NetworkGet(peers', now', p) = NoPeer
           /\ PeerFilter(peers') = PeerFilter(peers)

C14_UnknownUpdate == [][C14_UnknownUpdateStep]_vars

(* an update for an unknown peer while another peer is stored and listed *)
C14_Witness ==
    \E p, q \in OtherPeers :
        /\ p # q
        /\ netRes.op = "update" /\ netRes.peer = p /\ netRes.ping = "Ok"
        /\ netRes.event = NoEvent
        /\ peers[p] = NoPeer
        /\ PeerFilter(peers) = {q}

(* C15: for a stored peer with quality 0 and backoff backoff_min, one failed
   probe leaves the stored quality at 0 and makes the stored backoff greater
   than backoff_min. *)
C15_ErrOnZeroStep ==
    \A p \in OtherPeers :
        (/\ netRes'.op = "update" /\ netRes'.peer = p /\ netRes'.ping = "Err"
         /\ peers[p] # NoPeer
         /\ peers[p].quality = 0
         /\ peers[p].backoff = BackoffMin)
        => /\ peers'[p] # NoPeer
           /\ peers'[p].quality = 0
           /\ peers'[p].backoff > BackoffMin

C16_Recovered ==
    \A p \in OtherPeers :
        (peers[p] # NoPeer /\ okRun[p] >= RecoveryProbes)
        => /\ peers[p].quality = QualityOne
           /\ peers[p].backoff = BackoffMin

(* C17: another peer that is stored has has(peer) false and get(peer) None
   exactly while its ignored mark is set and now - ignored is less than
   ignore_timeframe; remove(peer) on it succeeds and deletes the record also
   then; when ignore_timeframe has passed has(peer) is true again with no
   update in between. *)
C17_InsideTimeframe(p) ==
    /\ peers[p].ignored # Never
    /\ now - peers[p].ignored < IgnoreTimeframe

C17_HiddenWhileIgnored ==
    \A p \in OtherPeers : peers[p] # NoPeer =>
        /\ ~NetworkHas(peers, now, p) <=> C17_InsideTimeframe(p)
        /\ NetworkGet(peers, now, p) = NoPeer <=> C17_InsideTimeframe(p)
        /\ ~C17_InsideTimeframe(p) => NetworkGet(peers, now, p) = peers[p]

C17_RemoveStep ==
    \A p \in OtherPeers :
        (netRes'.op = "remove" /\ netRes'.peer = p)
        => /\ netRes'.result = "Ok"
           /\ peers'[p] = NoPeer
           /\ \A q \in PeerIds \ {p} : peers'[q] = peers[q]

C17_IgnoredTimeframe == []C17_HiddenWhileIgnored /\ [][C17_RemoveStep]_vars

(* a peer that was ignored is visible again after the clock alone moved *)
C17_Witness ==
    \E p \in OtherPeers :
        /\ peers[p] # NoPeer
        /\ peers[p].ignored # Never
        /\ now - peers[p].ignored >= IgnoreTimeframe
        /\ netRes.op = "tick"
        /\ NetworkHas(peers, now, p)
        /\ NetworkGet(peers, now, p) = peers[p]

(* C18: a successful probe of a stored peer clears its ignored mark, inside
   the ignore timeframe too, so has(peer) is true right after it. *)
C18_OkClearsStep ==
    \A p \in OtherPeers :
        (/\ netRes'.op = "update" /\ netRes'.peer = p /\ netRes'.ping = "Ok"
         /\ peers[p] # NoPeer)
        => /\ peers'[p] # NoPeer
           /\ peers'[p].ignored = Never
           /\ NetworkHas(peers', now', p)

C18_OkClearsIgnored == [][C18_OkClearsStep]_vars

(* C19: add for another peer that has no record stores a record with quality
   0, backoff backoff_min and both heartbeat counters 0; has(peer) is true
   after it and peer_filter lists the peer once. *)
C19_AddNewStep ==
    \A p \in OtherPeers :
        (/\ netRes'.op = "add" /\ netRes'.peer = p
         /\ peers[p] = NoPeer)
        => /\ netRes'.result = "Ok"
           /\ peers'[p] # NoPeer
           /\ peers'[p].quality = 0
           /\ peers'[p].backoff = BackoffMin
           /\ peers'[p].heartbeats_sent = 0
           /\ peers'[p].heartbeats_succeeded = 0
           /\ NetworkHas(peers', now', p)
           /\ Cardinality({q \in PeerFilter(peers') : q = p}) = 1

C19_AddNew == [][C19_AddNewStep]_vars

(* C20: a failed probe that takes a stored peer's quality below
   quality_bad_threshold, but not below quality_step / 2, marks it ignored,
   so has(peer) is false right after; add(peer, ..) inside the ignore
   timeframe leaves the record as it is and the peer hidden. *)
C20_IgnoreStep ==
    \A p \in OtherPeers :
        /\ (/\ netRes'.op = "update" /\ netRes'.peer = p /\ netRes'.ping = "Err"
            /\ peers[p] # NoPeer
            /\ Max(0, F64SubStep(peers[p].quality)) < QualityBadThreshold
            /\ ~(Max(0, F64SubStep(peers[p].quality)) * 2 < QualityStep))
           => /\ peers'[p] # NoPeer
              /\ peers'[p].ignored = now'
              /\ ~NetworkHas(peers', now', p)
        /\ (/\ netRes'.op = "add" /\ netRes'.peer = p
            /\ peers[p] # NoPeer
            /\ peers[p].ignored # Never
            /\ now - peers[p].ignored < IgnoreTimeframe)
           => /\ netRes'.result = "Ok"
              /\ peers' = peers
              /\ ~NetworkHas(peers', now', p)

C20_IgnoredOnBadQuality == [][C20_IgnoreStep]_vars

(* add called on a peer one tick after a failed probe made it ignored *)
C20_Witness ==
    \E p \in OtherPeers :
        /\ netRes.op = "add" /\ netRes.peer = p /\ netRes.result = "Ok"
        /\ peers[p] # NoPeer
        /\ peers[p].quality < QualityBadThreshold
        /\ peers[p].ignored # Never
        /\ now = peers[p].ignored + 1
        /\ ~NetworkHas(peers, now, p)

(* C21: peer_filter and network_connected_peers pass only non-ignored records:
   a stored peer that is inside its ignore timeframe is in neither result. *)
C21_IgnoredNotListed ==
    \A p \in OtherPeers :
        (peers[p] # NoPeer /\ ShouldStillBeIgnored(peers[p], now))
        => /\ p \notin PeerFilter(peers)
           /\ p \notin NetworkConnectedPeers(peers)

(* C22: find_peers_to_ping(threshold) returns exactly the stored non-self
   peers with last_seen + effective_delay < threshold, where effective_delay =
   min(min_delay * backoff^backoff_exponent, max_delay), in ascending order of
   last_seen; every peer whose last_seen is older than threshold by more than
   max_delay is returned. *)
C22_Stored == {p \in OtherPeers : peers[p] # NoPeer}

C22_Ascending(s) ==
    \A i, j \in DOMAIN s : i < j => peers[s[i]].last_seen <= peers[s[j]].last_seen

C22_Range(s) == {s[i] : i \in DOMAIN s}

(* the effective delay as the claim states it, in tenths of a tick *)
C22_ClaimedDelay10(entry) == Min(MinDelay * Powf(entry.backoff), 10 * MaxDelay)

(* the effective delay with the power truncated to a whole number *)
C22_TruncatedDelay(entry) == Min(MinDelay * (Powf(entry.backoff) \div 10), MaxDelay)

C22_PeersToPingClaimed ==
    \A th \in Thresholds : \A s \in FindPeersToPingResults(peers, th) :
        /\ C22_Range(s) =
             {p \in C22_Stored :
                 10 * peers[p].last_seen + C22_ClaimedDelay10(peers[p]) < 10 * th}
        /\ C22_Ascending(s)

(* C22 (amended): the same with effective_delay = min(min_delay *
   floor(backoff^backoff_exponent), max_delay). *)
C22_PeersToPing ==
    \A th \in Thresholds :
        /\ FindPeersToPingResults(peers, th) # {}
        /\ \A s \in FindPeersToPingResults(peers, th) :
            /\ C22_Range(s) =
                 {p \in C22_Stored :
                     peers[p].last_seen + C22_TruncatedDelay(peers[p]) < th}
            /\ C22_Ascending(s)
            /\ \A p \in C22_Stored :
                 peers[p].last_seen + MaxDelay < th => p \in C22_Range(s)

(* two stored peers of different last_seen and backoff, one threshold that
   returns both and one that separates them by their delays *)
C22_Witness ==
    \E p, q \in OtherPeers :
        /\ p # q /\ peers[p] # NoPeer /\ peers[q] # NoPeer
        /\ peers[p].last_seen < peers[q].last_seen
        /\ peers[p].backoff # peers[q].backoff
        /\ \E th \in Thresholds : FindPeersToPingResults(peers, th) = {<<p, q>>}
        /\ \E th \in Thresholds : FindPeersToPingResults(peers, th) = {<<q>>}

(* C23: health() is computed from the current stats on every call and equals
   the classifier: Green if good-public > 0 and (self is public or
   good-non-public > 0), Yellow if good-public > 0 otherwise, Orange if
   good-public = 0 and bad-public > 0, Red otherwise.  Stored peers with at most
   one successful probe each give Orange, and three successful probes in a row
   on a stored peer give Green. *)
C23_Stored == {p \in OtherPeers : peers[p] # NoPeer}
C23_Good == {p \in C23_Stored : peers[p].quality >= QualityBadThreshold}
C23_Bad == {p \in C23_Stored : peers[p].quality < QualityBadThreshold}

C23_Classifier ==
    CASE C23_Good # {} /\ AmIPublic -> "Green"
      [] C23_Good # {} /\ ~AmIPublic -> "Yellow"
      [] C23_Good = {} /\ C23_Bad # {} -> "Orange"
      [] OTHER -> "Red"

C23_HealthClassified ==
    /\ NetworkHealth(peers) = C23_Classifier
    /\ (/\ C23_Stored # {}
        /\ \A p \in C23_Stored : peers[p].heartbeats_succeeded <= 1)
       => NetworkHealth(peers) = "Orange"
    /\ (\E p \in C23_Stored : okRun[p] >= 3) => NetworkHealth(peers) = "Green"

(* three successful probes in a row on one peer while the other, added and
   never probed, is of bad quality: Green *)
C23_Witness ==
    \E p, q \in OtherPeers :
        /\ netRes.op = "update" /\ netRes.ping = "Ok" /\ netRes.peer = p
        /\ peers[p] # NoPeer /\ okRun[p] = 3
        /\ peers[q] # NoPeer /\ peers[q].heartbeats_sent = 0
        /\ NetworkHealth(peers) = "Green"

C25_NoRecords == \A p \in PeerIds : peers[p] = NoPeer

C25_RedNow == C25_NoRecords => NetworkHealth(peers) = "Red"

C25_RedAfterLastRemoveStep ==
    (/\ netRes'.op = "remove"
     /\ NetworkHealth(peers) # "Red"
     /\ C25_NoRecords')
    => NetworkHealth(peers') = "Red"

C35_WithinBound == Len(evq.queue) <= EventQueueSize

C35_EmitStep ==
    (netRes'.op = "update" /\ netRes'.event # NoEvent)
    => /\ peers' = NetworkUpdate(peers, now, netRes'.peer, netRes'.ping,
                                 netRes'.latency, netRes'.version).store
       /\ evq'.emits = evq.emits + 1
       /\ IF Len(evq.queue) >= EventQueueSize \/ ~evq.rxAlive
          THEN evq'.queue = evq.queue /\ evq'.last \in {"full", "disconnected"}
          ELSE evq'.queue = Append(evq.queue, netRes'.event) /\ evq'.last = "sent"

C35_EventsBounded == []C35_WithinBound /\ [][C35_EmitStep]_vars

(* C36: per peer, probe outcomes are applied to the registry in submission
   order with no outcome lost: under every interleaving of overlapping update
   and add calls on one peer, once the calls have returned the stored record
   equals the result of applying them one after another in submission order
   (so heartbeats_sent has grown by one for every update applied), and an add
   never reverts the quality, backoff or counters written by an update. *)
C36_Quiet == \A k \in CallSlots : calls.slot[k].pc = "idle"

C36_SerialResult == C36_Quiet => peers["p1"] = calls.serial

C36_AddKeepsStep ==
    (netRes'.op = "end" /\ netRes'.call.op = "add")
    => /\ peers'["p1"].quality = peers["p1"].quality
       /\ peers'["p1"].backoff = peers["p1"].backoff
       /\ peers'["p1"].heartbeats_sent = peers["p1"].heartbeats_sent
       /\ peers'["p1"].heartbeats_succeeded = peers["p1"].heartbeats_succeeded

C36_SubmissionOrder == []C36_SerialResult /\ [][C36_AddKeepsStep]_vars

(* C37: health() of a registry built by Network::new never returns Yellow:
   the registry always treats itself as public, so a stored peer of good
   quality (every stored peer counts as public) yields Green whatever number
   of non-public peers the statistics report. *)
C37_NonPublicCounts == 0 .. 2

C37_StatsWith(good, bad) ==
    [DbNetworkPeerStats(peers, QualityBadThreshold)
        EXCEPT !.good_quality_non_public = good, !.bad_quality_non_public = bad]

C37_NeverYellow ==
    /\ NetworkHealth(peers) # "Yellow"
    /\ \A good, bad \in C37_NonPublicCounts :
          LET health == HealthFromStats(C37_StatsWith(good, bad), AmIPublic) IN
          /\ health # "Yellow"
          /\ (\E p \in OtherPeers : peers[p] # NoPeer /\ peers[p].quality >= QualityBadThreshold)
             => health = "Green"

(* one stored peer has just reached good quality and no record is non-public:
   the state in which a registry that is not public would answer Yellow *)
C37_Witness ==
    /\ netRes.op = "update" /\ netRes.ping = "Ok"
    /\ peers[netRes.peer] # NoPeer
    /\ peers[netRes.peer].quality = QualityBadThreshold
    /\ DbNetworkPeerStats(peers, QualityBadThreshold).good_quality_public = 1
    /\ DbNetworkPeerStats(peers, QualityBadThreshold).good_quality_non_public = 0
    /\ NetworkHealth(peers) = "Green"

(* C38: an update that returns CloseConnection leaves the stored peer record
   completely unchanged (quality, backoff, heartbeats_sent, peer_version and
   ignored keep their values), so while the record stays stored every further
   Err update on that peer with no Ok update in between returns
   CloseConnection again. *)
C38_Closing(p) == peers[p] # NoPeer /\ ClosesConnection(OnPingErr(peers[p]))

C38_UnchangedStep ==
    (netRes'.op = "update" /\ netRes'.event.type = "CloseConnection")
    => /\ C38_Closing(netRes'.peer)
       /\ peers' = peers

C38_AgainStep ==
    \A p \in OtherPeers :
        C38_Closing(p)
        => /\ (netRes'.op = "update" /\ netRes'.peer = p /\ netRes'.ping = "Err")
              => netRes'.event = [type |-> "CloseConnection", peer |-> p]
           /\ (peers'[p] # NoPeer
               /\ ~(netRes'.op = "update" /\ netRes'.peer = p /\ netRes'.ping = "Ok"))
              => ClosesConnection(OnPingErr(peers'[p]))

C38_CloseKeepsRecord == [][C38_UnchangedStep /\ C38_AgainStep]_vars

(* CloseConnection was returned for a probe that carried another version than
   the one stored with the record's only, successful, probe *)
C38_Witness ==
    \E p \in OtherPeers :
        /\ netRes.op = "update" /\ netRes.peer = p /\ netRes.ping = "Err"
        /\ netRes.event = [type |-> "CloseConnection", peer |-> p]
        /\ peers[p] # NoPeer
        /\ peers[p].heartbeats_sent = 1 /\ peers[p].heartbeats_succeeded = 1
        /\ peers[p].quality = QualityStep
        /\ peers[p].peer_version # netRes.version

----------------------------------------------------------------------------
(* Properties of the transport facade *)

InSessionRange(t) == t # NoTag /\ 16 <= t /\ t < 1024
InSubprotocolRange(t) == t # NoTag /\ 0 <= t /\ t < 16
InFreeRange(t) == t # NoTag /\ 1024 <= t /\ t < 65536

(* C4: send_message with a tag below 1024 or a payload over PAYLOAD_SIZE
   returns an Api error, resolves no path and hands no packet to the packet
   sender, before run() as well as after it. *)
C4_RejectedSendStep ==
    (/\ facRes'.op = "send_message"
     /\ \/ (facRes'.tag # NoTag /\ facRes'.tag < 1024)
        \/ facRes'.len > PAYLOAD_SIZE)
    => /\ facRes'.result = "Api"
       /\ resolved' = resolved
       /\ sent' = sent

C4_ReservedTagRejected == [][C4_RejectedSendStep]_vars

(* a reserved tag refused after run(), once a packet has gone out *)
C4_Witness ==
    /\ ran /\ sent > 0
    /\ facRes.op = "send_message" /\ facRes.tag = 1023 /\ facRes.len = 1
    /\ facRes.result = "Api"

(* C5: new_session fails with Api("Failed to generate a non-occupied session
   ID"), and then some id of cfg.peer is in the directory and the directory
   is left as it was; or it selects an id with a tag in [16, 1024) that the
   directory does not hold at that moment, and on return the directory holds
   that id with the sender of the returned Session. *)
C5_NewSessionStep ==
    \A c \in Callers :
        /\ (facRes'.op = "new_session" /\ facRes'.caller = c /\ facRes'.result # "Ok")
           => /\ facRes'.result = "Api" /\ facRes'.msg = ApiNoSessionId
              /\ \E t \in TagUniverse :
                    InSessionRange(t) /\ sessions[<<t, facRes'.peer>>] # 0
              /\ sessions' = sessions /\ handed' = handed
        /\ (ns[c].pc = "idle" /\ ns'[c].pc = "insert")
           => /\ InSessionRange(ns'[c].sid[1])
              /\ ns'[c].sid[2] \in ClientPeers
              /\ sessions[ns'[c].sid] = 0
        /\ (facRes'.op = "new_session" /\ facRes'.caller = c /\ facRes'.result = "Ok")
           => /\ facRes'.session.id = ns[c].sid
              /\ InSessionRange(facRes'.session.id[1])
              /\ sessions'[facRes'.session.id] = facRes'.session.rx
              /\ facRes'.session.rx # 0
              /\ facRes'.session \in handed'

C5_NewSessionId == [][C5_NewSessionStep]_vars

(* new_session returned a Session while the directory held another id *)
C5_Witness ==
    /\ facRes.op = "new_session" /\ facRes.result = "Ok"
    /\ \E sid \in SessionIds : sid # facRes.session.id /\ sessions[sid] # 0

(* C6: the router sends a packet with no tag or a tag in [1024, 65536)
   unchanged to the host output, drops a packet with a tag in [0, 16), and
   takes a packet with a tag in [16, 1024) to the session path without ever
   forwarding it; every tag is in exactly one of these cases. *)
C6_HostOutFree ==
    \A i \in 1 .. Len(hostOut) :
        hostOut[i].application_tag = NoTag \/ InFreeRange(hostOut[i].application_tag)

C6_RouteStep ==
    facRes'.op = "router" =>
        IF facRes'.step # "receive" THEN hostOut' = hostOut
        ELSE LET pk == facRes'.pkt
                 t == pk.application_tag
                 cases == {k \in {"free", "sub", "sess"} :
                              \/ (k = "free" /\ (t = NoTag \/ InFreeRange(t)))
                              \/ (k = "sub" /\ InSubprotocolRange(t))
                              \/ (k = "sess" /\ InSessionRange(t))}
             IN /\ Cardinality(cases) = 1
                /\ "free" \in cases =>
                      /\ hostOut' = Append(hostOut, pk)
                      /\ facRes'.outcome = "forwarded"
                      /\ rtr' = RtrIdle
                      /\ UNCHANGED <<sessions, chans, incoming>>
                /\ "sub" \in cases =>
                      /\ facRes'.outcome = "dropped"
                      /\ rtr' = RtrIdle
                      /\ UNCHANGED <<hostOut, sessions, chans, incoming>>
                /\ "sess" \in cases =>
                      /\ hostOut' = hostOut
                      /\ facRes'.outcome \in {"lookup", "undecodable"}
                      /\ (Len(pk.plain_text) > 0 => rtr'.pc \in {"found", "fresh"})

C6_TagPartition == []C6_HostOutFree /\ [][C6_RouteStep]_vars

(* a packet dropped after one was forwarded and a session was opened by one *)
C6_Witness ==
    /\ Len(hostOut) > 0
    /\ Len(incoming) > 0
    /\ facRes.op = "router" /\ facRes.step = "receive" /\ facRes.outcome = "dropped"
    /\ facRes.pkt.application_tag = 15

(* C7 as claimed: a decoded session packet for an id the directory does not
   hold always enqueues one new Session, gives it the data first and inserts
   the id; one for an id the directory holds always enqueues the data on
   that session's channel and makes no Session. *)
C7_OpenStep ==
    LET c == Len(chans) + 1 IN
    /\ Len(incoming') = Len(incoming) + 1
    /\ incoming'[Len(incoming')].id = rtr.sid
    /\ incoming'[Len(incoming')].rx = c
    /\ SubSeq(incoming', 1, Len(incoming)) = incoming
    /\ Len(chans') = c
    /\ chans'[c].queue = <<rtr.data>>
    /\ rtr'.pc = "insert" /\ rtr'.sid = rtr.sid /\ rtr'.tx = c

C7_DeliverStep ==
    /\ chans'[rtr.sender].queue = Append(chans[rtr.sender].queue, rtr.data)
    /\ incoming' = incoming
    /\ sessions' = sessions

C7_InsertStep ==
    /\ sessions'[rtr.sid] = rtr.tx
    /\ incoming' = incoming

C7_SessionPathClaimedStep ==
    facRes'.op = "router" =>
        /\ (facRes'.step = "open") => C7_OpenStep
        /\ (facRes'.step = "insert") => C7_InsertStep
        /\ (facRes'.step = "deliver") => C7_DeliverStep

C7_SessionPathClaimed == [][C7_SessionPathClaimedStep]_vars

(* C7 as amended: the same, for a new id when the incoming-sessions channel
   accepts the Session, and for a held id when the channel of the sender
   found in the directory is still open. *)
C7_SessionPathStep ==
    facRes'.op = "router" =>
        /\ (facRes'.step = "open" /\ incomingOpen) => C7_OpenStep
        /\ (facRes'.step = "insert") => C7_InsertStep
        /\ (facRes'.step = "deliver" /\ chans[rtr.sender].rxAlive) => C7_DeliverStep

C7_SessionPath == [][C7_SessionPathStep]_vars

(* a session opened by a first packet has received a second one *)
C7_Witness ==
    \E i \in 1 .. Len(incoming) :
        /\ sessions[incoming[i].id] = incoming[i].rx
        /\ Len(chans[incoming[i].rx].queue) = 2
        /\ facRes.op = "router" /\ facRes.step = "deliver" /\ facRes.outcome = "delivered"

(* C8: no two Sessions handed out, by new_session or on the incoming-sessions
   channel, share a SessionId, and the directory entry of a live Session is
   never replaced by another sender. *)
AllSessions == handed \cup {incoming[i] : i \in 1 .. Len(incoming)}

C8_OneSessionPerId ==
    \A s1, s2 \in AllSessions : s1.id = s2.id => s1.rx = s2.rx

C8_NoOverwriteStep ==
    \A sid \in SessionIds :
        (sessions[sid] # 0 /\ chans[sessions[sid]].rxAlive)
        => sessions'[sid] = sessions[sid]

C8_DirectoryExclusive == []C8_OneSessionPerId /\ [][C8_NoOverwriteStep]_vars

(* C26: ping(peer) with the node's own id, or with a peer the network-registry
   access check refuses, returns an Api error, adds, updates and removes no
   registry record and hands no probe to the ping executor. *)
C26_PingReturnsAtOnce ==
    /\ pg.pc = "idle" /\ pg' = pg
    /\ facRes'.op = "ping"
    /\ netRes' = netRes /\ now' = now

C26_RefusedPingStep ==
    (/\ C26_PingReturnsAtOnce
     /\ facRes'.peer = Me \/ ~facRes'.allowed)
    => /\ facRes'.result = "Api"
       /\ peers' = peers
       /\ submitted' = submitted
       /\ late' = late

C26_NoPingWithoutAccess ==
    /\ facRes.op = "ping" /\ (facRes.peer = Me \/ ~facRes.allowed)
       => facRes.result = "Api" /\ facRes.latency = NoLatency

C26_RefusedPing == []C26_NoPingWithoutAccess /\ [][C26_RefusedPingStep]_vars

(* a refused ping of a stored peer after run() and an earlier ping of it *)
C26_Witness ==
    /\ facRes.op = "ping" /\ facRes.peer = "p1" /\ ~facRes.allowed
    /\ facRes.result = "Api"
    /\ cells.ping # 0 /\ submitted > 0
    /\ peers["p1"] # NoPeer

(* C27: the ping executor, packet sender and ticket-aggregation writer cells
   are write-once.  Before run() has set them, ping and send_message with
   valid arguments fail with Api("... not yet initialized") and leave the
   registry as it was; run() sets each cell once, a set cell never changes,
   and a second run() panics. *)
C27_CellNames == {"ping", "process_packet_send", "process_ticket_aggregate"}

(* the step is a facade call that returned at once, or changes nothing *)
C27_FacadeCall == now' = now /\ (facRes' # facRes \/ netRes' = netRes)

C27_PingBeforeRunStep ==
    (/\ C27_FacadeCall
     /\ pg.pc = "idle" /\ facRes'.op = "ping"
     /\ facRes'.allowed /\ facRes'.peer # Me
     /\ cells.ping = 0)
    => /\ facRes'.result = "Api"
       /\ facRes'.msg = "ping processing is not yet initialized"
       /\ peers' = peers /\ submitted' = submitted /\ pg' = pg

C27_SendBeforeRunStep ==
    (/\ C27_FacadeCall
     /\ facRes'.op = "send_message"
     /\ ~IsReservedTag(facRes'.tag) /\ facRes'.len <= PAYLOAD_SIZE
     /\ cells.process_packet_send = 0)
    => /\ facRes'.result = "Api"
       /\ facRes'.msg = "message processing is not yet initialized"
       /\ peers' = peers /\ sent' = sent

C27_WriteOnceStep ==
    \A c \in C27_CellNames : cells[c] # 0 => cells'[c] = cells[c]

C27_SecondRunStep ==
    \A k \in RunCalls :
        (/\ runs[k] = "idle" /\ runs'[k] # "idle"
         /\ \E j \in RunCalls : j # k /\ runs[j] # "idle")
        => /\ runs'[k] = "panicked"
           /\ facRes'.op = "run" /\ facRes'.result = "Panic"
           /\ cells' = cells

C27_SetByOneRun ==
    /\ \A k \in RunCalls :
           runs[k] = "done" => \A c \in C27_CellNames : cells[c] = k
    /\ \A c \in C27_CellNames : cells[c] # 0 => runs[cells[c]] \in {"swarm", "done"}
    /\ Cardinality({k \in RunCalls : runs[k] \in {"swarm", "done"}}) <= 1

C27_WriteOnce ==
    /\ []C27_SetByOneRun
    /\ [][/\ C27_PingBeforeRunStep /\ C27_SendBeforeRunStep
          /\ C27_WriteOnceStep /\ C27_SecondRunStep]_vars

(* a second run() has panicked after the first one has set all cells, a ping
   has been handed to the executor and a packet to the sender *)
C27_Witness ==
    /\ facRes.op = "run" /\ facRes.result = "Panic"
    /\ runs[1] = "done" /\ runs[2] = "panicked"
    /\ \A c \in C27_CellNames : cells[c] = 1
    /\ submitted > 0 /\ sent > 0

(* ping and send_message have failed before run() on a registry that holds a
   record *)
C27_WitnessBeforeRun ==
    /\ facRes.op = "ping" /\ facRes.allowed /\ facRes.peer = "p1"
    /\ facRes.result = "Api" /\ cells.ping = 0
    /\ resolved > 0 /\ sent = 0
    /\ peers["p1"] # NoPeer

(* C28: a manual ping races the probe against the 30 s timer.  When the timer
   fires before the probe has completed, ping returns Timeout and no latency
   and the registry, with the record added for the ping, is as it was; a
   latency is returned only after the sink got the outcome.  An outcome that
   reaches the sink after the timeout is applied to the registry. *)
C28_PingReturnsStep ==
    (pg.pc = "racing" /\ pg'.pc = "idle")
    => \/ /\ facRes'.op = "ping" /\ facRes'.result = "Timeout"
          /\ facRes'.latency = NoLatency
          /\ peers' = peers
          /\ pg.peer \in late'
       \/ /\ facRes'.op = "ping" /\ facRes'.result = "Ok"
          /\ netRes'.op = "update" /\ netRes'.peer = pg.peer
          /\ late' = late

C28_LateOutcomeStep ==
    \A p \in OtherPeers :
        (p \in late /\ p \notin late')
        => /\ netRes'.op = "update" /\ netRes'.peer = p
           /\ peers' = NetworkUpdate(peers, now, p, netRes'.ping, netRes'.latency,
                                     netRes'.version).store
           /\ (netRes'.ping = "Ok" /\ peers[p] # NoPeer)
              => /\ peers'[p].heartbeats_sent = peers[p].heartbeats_sent + 1
                 /\ peers'[p].heartbeats_succeeded = peers[p].heartbeats_succeeded + 1
                 /\ peers'[p].last_seen = now

C28_NoLatencyOnTimeout ==
    (facRes.op = "ping" /\ facRes.result = "Timeout") => facRes.latency = NoLatency

C28_PingTimeout ==
    /\ []C28_NoLatencyOnTimeout
    /\ [][C28_PingReturnsStep /\ C28_LateOutcomeStep]_vars

(* the only probe handed to the executor outlived its ping and its successful
   outcome is in the record that ping added *)
C28_Witness ==
    /\ facRes.op = "late_probe" /\ facRes.peer = "p1"
    /\ submitted = 1 /\ late = {}
    /\ netRes.op = "update" /\ netRes.ping = "Ok"
    /\ peers["p1"] # NoPeer
    /\ peers["p1"].origin = "ManualPing"
    /\ peers["p1"].heartbeats_succeeded = 1

(* C29: when a session-range packet for a SessionId that is not in the
   directory arrives and the incoming-sessions channel refuses the new
   Session, the packet is dropped and the directory is left as it was, so a
   later packet for the same SessionId is again taken as a new incoming
   session. *)
C29_RefusedStep ==
    (rtr.pc = "fresh" /\ rtr' # rtr /\ ~incomingOpen)
    => /\ facRes'.op = "router" /\ facRes'.outcome = "refused"
       /\ sessions' = sessions
       /\ chans' = chans /\ incoming' = incoming /\ hostOut' = hostOut
       /\ rtr' = RtrIdle

C29_AgainNewStep ==
    (/\ rtr.pc = "recv" /\ rtr'.pc \in {"found", "fresh"}
     /\ sessions[rtr'.sid] = 0)
    => rtr'.pc = "fresh"

C29_RefusedSession == [][C29_RefusedStep /\ C29_AgainNewStep]_vars

(* a new Session has been refused while the directory holds another session *)
C29_Witness ==
    /\ facRes.op = "router" /\ facRes.step = "open" /\ facRes.outcome = "refused"
    /\ ~incomingOpen
    /\ \E sid \in SessionIds : sessions[sid] # 0
    /\ Len(incoming) > 0

(* C30: for every session the payloads in its inbound channel are in the
   order in which their packets arrived at the session router, the packet
   that opened the session first, and the packets forwarded to the host are in
   their arrival order.  The router has one packet in hand at a time; every
   queue grows only at its tail, by the packet in hand. *)
C30_PacketTakenStep ==
    (rtr' # rtr /\ rtr'.pc \in {"found", "fresh"})
    => /\ rtr.pc = "recv"
       /\ facRes'.op = "router" /\ facRes'.step = "receive"
       /\ RouteOf(facRes'.pkt.application_tag) = "session"
       /\ rtr'.data = UnwrapOffchainKey(facRes'.pkt.plain_text).data
       /\ rtr'.sid = NewSessionId(facRes'.pkt.application_tag,
                                  UnwrapOffchainKey(facRes'.pkt.plain_text).peer)
       /\ rtr'.sender = sessions[rtr'.sid]

C30_QueueStep ==
    \A c \in 1 .. Len(chans) :
        chans'[c].queue # chans[c].queue
        => \/ /\ rtr.pc = "found" /\ rtr.sender = c
              /\ chans'[c].queue = Append(chans[c].queue, rtr.data)
           \/ /\ ~chans'[c].rxAlive
              /\ chans'[c].queue = <<>>

C30_OpenStep ==
    Len(chans') # Len(chans)
    => /\ Len(chans') = Len(chans) + 1
       /\ \/ /\ rtr.pc = "fresh"
             /\ chans'[Len(chans')].queue = <<rtr.data>>
             /\ rtr'.pc = "insert" /\ rtr'.tx = Len(chans') /\ rtr'.sid = rtr.sid
          \/ /\ rtr' = rtr
             /\ chans'[Len(chans')].queue = <<>>

C30_HostStep ==
    hostOut' # hostOut
    => /\ rtr.pc = "recv" /\ rtr'.pc = "recv"
       /\ facRes'.op = "router" /\ facRes'.step = "receive"
       /\ hostOut' = Append(hostOut, facRes'.pkt)

C30_ArrivalOrder ==
    [][C30_PacketTakenStep /\ C30_QueueStep /\ C30_OpenStep /\ C30_HostStep]_vars

(* a session holds the payload that opened it and the one that followed, and
   the host two different packets *)
C30_Witness ==
    /\ Len(chans) = 1
    /\ chans[1].queue = << <<187>>, <<170>> >>
    /\ Len(hostOut) = 2 /\ hostOut[1] # hostOut[2]
    /\ hostOut[1].application_tag = RESERVED_SESSION_TAG_UPPER_LIMIT

(* C31: the session router keeps running after every demux error: after a
   packet whose key does not decode, a packet for a session whose inbound
   channel is closed, or a refused incoming-session enqueue, that packet is
   dropped (no queue, directory entry or host output changes), the router is
   back at its receive point, and the next packet it takes is delivered,
   dropped or forwarded according to its tag. *)
C31_DemuxError(r) ==
    /\ r.op = "router"
    /\ \/ r.step = "receive" /\ r.outcome = "undecodable"
       \/ r.step = "deliver" /\ r.outcome = "closed"
       \/ r.step = "open" /\ r.outcome = "refused"

C31_DroppedStep ==
    C31_DemuxError(facRes')
    => /\ rtr' = RtrIdle
       /\ UNCHANGED <<sessions, chans, incoming, incomingOpen, hostOut, handed>>

C31_NextPacketStep ==
    (C31_DemuxError(facRes) /\ facRes'.op = "router")
    => /\ facRes'.step = "receive"
       /\ LET route == RouteOf(facRes'.pkt.application_tag) IN
          /\ route = "forward" => (facRes'.outcome = "forwarded"
                                   /\ hostOut' = Append(hostOut, facRes'.pkt))
          /\ route = "drop" => facRes'.outcome = "dropped"
          /\ route = "session" =>
                IF UnwrapOffchainKey(facRes'.pkt.plain_text).ok
                THEN rtr'.pc \in {"found", "fresh"}
                ELSE facRes'.outcome = "undecodable"

C31_Receiving ==
    C31_DemuxError(facRes)
    => /\ rtr = RtrIdle
       /\ \A pk \in DemuxPackets :
             (RouteOf(pk.application_tag) = "forward" => Len(hostOut) < MaxHostOut)
             => ENABLED RouterReceive(pk)

C31_RouterContinues ==
    []C31_Receiving /\ [][C31_DroppedStep /\ C31_NextPacketStep]_vars

(* the router found the channel of a held session closed, after the
   incoming-sessions queue was closed too, and can take a packet *)
C31_Witness ==
    /\ facRes.op = "router" /\ facRes.step = "deliver" /\ facRes.outcome = "closed"
    /\ ~incomingOpen
    /\ Len(hostOut) > 0
    /\ \E pk \in DemuxPackets : ENABLED RouterReceive(pk)

(* C32 as claimed: a directory entry that has been idle for session_idle_ttl
   (5 minutes) is evicted; eviction closes that session's inbound channel, and
   a packet routed afterwards to the evicted SessionId is dropped. *)
C32_Evicted(sid) == sessions[sid] = 0 /\ idle[sid] = SessionIdleTtl

(* no sender of channel c is left: not in the directory, not in the router's hand *)
C32_Closed(dir, r, c) ==
    /\ \A sid \in SessionIds : dir[sid] # c
    /\ ~(r.pc = "found" /\ r.sender = c)
    /\ ~(r.pc = "insert" /\ r.tx = c)

C32_FreshEntries ==
    \A sid \in SessionIds : sessions[sid] # 0 => (0 <= idle[sid] /\ idle[sid] < SessionIdleTtl)

C32_MinuteStep ==
    facRes'.op = "minute"
    => \A sid \in SessionIds :
          sessions[sid] # 0
          => IF idle[sid] + 1 >= SessionIdleTtl
             THEN /\ sessions'[sid] = 0
                  /\ idle'[sid] = SessionIdleTtl
                  /\ sid \in facRes'.evicted
                  /\ C32_Closed(sessions', rtr', sessions[sid])
             ELSE /\ sessions'[sid] = sessions[sid]
                  /\ idle'[sid] = idle[sid] + 1

C32_ReceivedForEvicted ==
    /\ facRes'.op = "router" /\ facRes'.step = "receive"
    /\ RouteOf(facRes'.pkt.application_tag) = "session"
    /\ UnwrapOffchainKey(facRes'.pkt.plain_text).ok
    /\ C32_Evicted(NewSessionId(facRes'.pkt.application_tag,
                                UnwrapOffchainKey(facRes'.pkt.plain_text).peer))

C32_DroppedStep ==
    C32_ReceivedForEvicted
    => /\ rtr' = RtrIdle
       /\ UNCHANGED <<sessions, chans, incoming, hostOut>>

C32_EvictionDropsClaimed ==
    []C32_FreshEntries /\ [][C32_MinuteStep /\ C32_DroppedStep]_vars

(* C32 as amended: a directory entry that has been idle for session_idle_ttl
   (5 minutes) is evicted; eviction drops the directory's sender, which closes
   that session's inbound channel, and no packet routed afterwards reaches
   that channel: a packet for the evicted SessionId finds no entry and is
   handled as the first packet of a new incoming session (when the
   incoming-sessions channel accepts it, a new Session whose new channel
   holds the packet is enqueued and the id is inserted again). *)
C32_ClosedStaysStep ==
    \A c \in 1 .. Len(chans) :
        C32_Closed(sessions, rtr, c)
        => /\ C32_Closed(sessions', rtr', c)
           /\ chans'[c].queue = chans[c].queue

C32_NoEntryStep ==
    C32_ReceivedForEvicted
    => /\ facRes'.outcome = "lookup"
       /\ rtr'.pc = "fresh" /\ rtr'.sender = 0
       /\ rtr'.data = UnwrapOffchainKey(facRes'.pkt.plain_text).data
       /\ UNCHANGED <<sessions, chans, incoming, hostOut>>

C32_ReopenStep ==
    /\ (facRes'.op = "router" /\ facRes'.step = "open"
        /\ C32_Evicted(rtr.sid) /\ incomingOpen)
       => C7_OpenStep
    /\ (facRes'.op = "router" /\ facRes'.step = "insert")
       => (sessions'[rtr.sid] = rtr.tx /\ idle'[rtr.sid] = 0)

C32_EvictionReopens ==
    /\ []C32_FreshEntries
    /\ [][C32_MinuteStep /\ C32_ClosedStaysStep /\ C32_NoEntryStep /\ C32_ReopenStep]_vars

(* a session was evicted and a later packet for its id opened a second one,
   while the channel of the first holds what it held *)
C32_Witness ==
    /\ Len(incoming) = 2
    /\ incoming[1].id = incoming[2].id
    /\ sessions[incoming[2].id] = incoming[2].rx
    /\ C32_Closed(sessions, rtr, incoming[1].rx)
    /\ chans[incoming[1].rx].queue # <<>>

(* C33: in execute_on_tick at most one invocation of the action is in flight
   at any time: a new invocation is started only after the previous one has
   completed or has been abandoned, and the loop never terminates: it is
   always at its head, in its select or in its pause, with a step to take. *)
C33_OneInFlight ==
    /\ Cardinality(tmr.inflight) <= 1
    /\ tmr.inflight \subseteq {tmr.cur}
    /\ tmr.pc = "select" <=> tmr.inflight # {}

C33_StartStep ==
    (facRes'.op = "timer" /\ facRes'.step = "start")
    => /\ tmr.inflight = {}
       /\ tmr.cur # NoInvocation => tmr.cur \in tmr.done \cup tmr.cut
       /\ tmr'.inflight = {facRes'.id}

C33_LoopRuns ==
    /\ tmr.pc \in {"loop", "select", "pause"}
    /\ (tmr.pc # "loop" \/ tmr.ticks < MaxTicks) => ENABLED NextTimer

C33_OneAtATime == [](C33_OneInFlight /\ C33_LoopRuns) /\ [][C33_StartStep]_vars

(* the third invocation is in flight after one that completed and one that
   was abandoned *)
C33_Witness ==
    /\ tmr.ticks = 3 /\ tmr.inflight = {3}
    /\ tmr.done # {} /\ tmr.cut # {}

(* C34: execute_on_tick paces ticks by the cycle: when the action finishes
   after d < cycle the loop sleeps cycle - d, so that the next tick starts one
   cycle after the previous start; when the action's work reaches or exceeds
   the cycle, the overrun is logged and the next tick starts immediately with
   no additional sleep. *)
C34_Elapsed == tmr.now - tmr.start

C34_PacedStep ==
    facRes'.op = "timer" =>
        /\ (facRes'.step = "finished" /\ C34_Elapsed < Cycle)
           => (tmr'.pc = "pause" /\ tmr'.wake = tmr.now + (Cycle - C34_Elapsed))
        /\ facRes'.step = "woke" => (tmr.now = tmr.start + Cycle /\ tmr'.pc = "loop")
        /\ facRes'.step = "start" => tmr'.start = tmr.now
        /\ facRes'.step # "time" => tmr'.now = tmr.now

C34_OverrunStep ==
    (facRes'.op = "timer" /\ facRes'.step \in {"finished", "timeout"}
     /\ C34_Elapsed >= Cycle)
    => /\ facRes'.logged
       /\ tmr'.pc = "loop"

C34_PacedByCycle == [][C34_PacedStep /\ C34_OverrunStep]_vars

(* C39 as claimed: in execute_on_tick an action that has not completed when
   the cycle elapses is cancelled: it is dropped at that point, never resumed
   and never observed to complete, and the following tick starts a fresh
   invocation of the action. *)
C39_Overdue == tmr.pc = "select" /\ tmr.now - tmr.start >= Cycle /\ tmr.left > 0

C39_CancelledStep(overdue) ==
    (overdue /\ facRes'.op = "timer")
    => /\ facRes'.step = "timeout" /\ facRes'.id = tmr.cur
       /\ tmr'.inflight = {}
       /\ tmr.cur \in tmr'.cut
       /\ tmr'.pc = "loop" /\ tmr'.now = tmr.now

C39_NeverResumed ==
    /\ tmr.cut \cap tmr.done = {}
    /\ tmr.cut \cap tmr.inflight = {}

C39_FreshStep ==
    (facRes'.op = "timer" /\ facRes'.step = "start")
    => /\ facRes'.id \notin tmr.cut \cup tmr.done \cup tmr.inflight
       /\ tmr'.cur = facRes'.id
       /\ tmr'.inflight = {facRes'.id}
       /\ tmr'.start = tmr.now

C39_CancelledAtCycleClaimed ==
    []C39_NeverResumed /\ [][C39_CancelledStep(C39_Overdue) /\ C39_FreshStep]_vars

(* C39 as amended: in execute_on_tick an action that has not completed when
   the cycle elapses, and that has yielded to the executor, is cancelled: it
   is dropped at that point, never resumed and never observed to complete,
   and the following tick starts a fresh invocation of the action.  (An
   action that works past the cycle inside one poll is not interrupted.) *)
C39_CancelledAtCycle ==
    /\ []C39_NeverResumed
    /\ [][C39_CancelledStep(C39_Overdue /\ tmr.yields) /\ C39_FreshStep]_vars

(* a new invocation is in flight right after one was cut at the cycle, with
   an earlier one completed *)
C39_Witness ==
    /\ tmr.cur - 1 \in tmr.cut
    /\ tmr.inflight = {tmr.cur}
    /\ tmr.now = tmr.start
    /\ tmr.done # {}

(* C40: a session opened with new_session is reachable for inbound traffic:
   while its SessionId (tag, cfg.peer) stays in the directory (and the Session
   is held), every inbound session-range packet with that tag that decodes to
   that peer is delivered on the inbound channel of the Session returned by
   new_session, and no Session is enqueued on the incoming-sessions channel
   for it. *)
C40_Held(s) == sessions[s.id] # 0 /\ chans[s.rx].rxAlive

C40_ReceiveStep ==
    \A s \in handed :
        (/\ C40_Held(s)
         /\ facRes'.op = "router" /\ facRes'.step = "receive"
         /\ RouteOf(facRes'.pkt.application_tag) = "session"
         /\ UnwrapOffchainKey(facRes'.pkt.plain_text).ok
         /\ NewSessionId(facRes'.pkt.application_tag,
                         UnwrapOffchainKey(facRes'.pkt.plain_text).peer) = s.id)
        => (rtr'.pc = "found" /\ rtr'.sender = s.rx)

C40_DeliverStep ==
    \A s \in handed :
        (/\ C40_Held(s)
         /\ facRes'.op = "router" /\ facRes'.step = "deliver"
         /\ rtr.sid = s.id)
        => chans'[s.rx].queue = Append(chans[s.rx].queue, rtr.data)

C40_NoIncomingStep ==
    \A s \in handed :
        (/\ C40_Held(s)
         /\ facRes'.op = "router" /\ facRes'.step = "open"
         /\ rtr.sid = s.id)
        => incoming' = incoming

C40_SessionReachable ==
    [][C40_ReceiveStep /\ C40_DeliverStep /\ C40_NoIncomingStep]_vars

====
